---- MODULE Spec2Model ----
(***************************************************************************)
(* WiFi/Bluetooth device correlation: the normalizer, the pairwise scorer, *)
(* the correlation engine (DeviceCorrelator.correlate), the reconciler     *)
(* (get_correlations), the /correlation/analyze route and the              *)
(* device_correlations table with its upsert.                              *)
(*                                                                         *)
(* Times are whole seconds.  A confidence computed under the configuration *)
(* (W, R) = (time window, rssi threshold) is an integer numerator over     *)
(* ConfUnit(W, R) = 100 * W * R, which makes every term of the score exact *)
(* (the code computes it in binary floating point).                        *)
(*                                                                         *)
(* Specifications:                                                         *)
(*   Spec      the two routes, with the engine as the only writer          *)
(*   SpecStore add_correlation called directly                             *)
(*   SpecConc  add_correlation from several threads at once                *)
(*   SpecScore the scorer under any configuration                          *)
(*   SpecRace  get_correlations from several threads at once               *)
(*   SpecEngine get_correlations called directly, on any kind of record    *)
(*   SpecNorm  the normalizer on one raw record                            *)
(*   SpecGps   one GPSDClient (utils/gps.py) and its read loop             *)
(***************************************************************************)
EXTENDS Integers, Sequences, FiniteSets, TLC

VARIABLES
    store,           \* table device_correlations, rows in rowid order
    now,             \* the clock: CURRENT_TIMESTAMP and datetime.now()
    min_confidence,  \* correlator.min_confidence of the global correlator
    call,            \* the operation that ran last, with its arguments
    outcome,         \* how it ended: "none", "ok", "not_found", "error"
    results,         \* the list it returned
    pass,            \* locals of the last get_correlations call
    ledger,          \* per pair, the first and the latest committed upsert
    sc,              \* one evaluation of the scorer: inputs and outputs
    writers,         \* the connections of concurrent passes, each in an upsert
    db_lock,         \* the connection that holds the database write lock
    threads,         \* the request threads inside get_correlations
    norm,            \* one run of the normalizer: the raw record and its result
    gps              \* one GPSDClient, its read loop and the last call on it

vars == <<store, now, min_confidence, call, outcome, results, pass, ledger, sc,
          writers, db_lock, threads, norm, gps>>

\* What the request handlers leave alone
aux == <<sc, writers, db_lock, threads, norm, gps>>

-----------------------------------------------------------------------------
(* Bounds of the model *)

MaxClock == 1
MaxWriters == 2
MaxConnects == 2
MaxMessages == 3

-----------------------------------------------------------------------------
(* Strings: str.upper(), str.lower() and prefix slices *)

LowerChars == "abcdefghijklmnopqrstuvwxyz"
UpperChars == "ABCDEFGHIJKLMNOPQRSTUVWXYZ"

Min(a, b) == IF a <= b THEN a ELSE b
Abs(a) == IF a >= 0 THEN a ELSE 0 - a

CharAt(s, i) == SubSeq(s, i, i)

\* The character map that takes from[i] to to[i]
CharMap(from, to) ==
    [c \in {CharAt(from, i) : i \in 1..Len(from)} |->
        CharAt(to, CHOOSE i \in 1..Len(from) : CharAt(from, i) = c)]

ToUpper == CharMap(LowerChars, UpperChars)
ToLower == CharMap(UpperChars, LowerChars)

RECURSIVE MapStr(_, _)
MapStr(map, s) ==
    IF s = "" THEN ""
    ELSE (IF CharAt(s, 1) \in DOMAIN map THEN map[CharAt(s, 1)] ELSE CharAt(s, 1))
         \o MapStr(map, SubSeq(s, 2, Len(s)))

Upper(s) == MapStr(ToUpper, s)
Lower(s) == MapStr(ToLower, s)

\* s[:n]
Prefix(s, n) == SubSeq(s, 1, Min(n, Len(s)))

-----------------------------------------------------------------------------
(* Raw field values of a device record (a loosely typed dict)              *)
(*   absent : the key is missing, or None                                  *)
(*   iso    : a string datetime.fromisoformat parses, without UTC offset   *)
(*   isoz   : a string it parses, ending in Z or an offset (aware)         *)
(*   text   : a non-empty string that is neither ISO-8601 nor a number     *)
(*   empty  : the empty string                                             *)
(*   num    : an int or float (n)                                          *)
(*   dt     : a datetime object (n seconds)                                *)

V(k, n) == [k |-> k, n |-> n]
Absent == V("absent", 0)

Truthy(v) ==
    CASE v.k = "absent" -> FALSE
      [] v.k = "empty"  -> FALSE
      [] v.k = "num"    -> v.n # 0
      [] OTHER          -> TRUE

\* a or b
Or(a, b) == IF Truthy(a) THEN a ELSE b

\* "" or None or a missing key: all are falsy and the code only tests truth
OrStr(a, b) == IF a # "" THEN a ELSE b

IsStr(v) == v.k \in {"iso", "isoz", "text", "empty"}

\* A raw device record: the dict key and the fields the normalizer reads.
Device(mac, first_seen, last_seen, rssi, name, manufacturer) ==
    [mac |-> mac,
     first_seen |-> first_seen, firstSeen |-> Absent,
     last_seen |-> last_seen, lastSeen |-> Absent,
     rssi |-> rssi, power |-> Absent, signal |-> Absent,
     name |-> name, essid |-> "", ssid |-> "",
     manufacturer |-> manufacturer, vendor |-> ""]

-----------------------------------------------------------------------------
(* Observation Normalizer: DeviceCorrelator._to_observation *)

\* One timestamp field: [ok, t, aware]; ok = FALSE when the conversion raises.
ToDatetime(v, clock) ==
    CASE v.k \in {"iso"}           -> [ok |-> TRUE, t |-> v.n, aware |-> FALSE]
      [] v.k \in {"isoz"}          -> [ok |-> TRUE, t |-> v.n, aware |-> TRUE]
      [] v.k \in {"text", "empty"} -> [ok |-> FALSE, t |-> 0, aware |-> FALSE]
      [] v.k = "num"               -> [ok |-> TRUE, t |-> v.n \div 1000, aware |-> FALSE]
      [] OTHER                     -> [ok |-> TRUE, t |-> clock, aware |-> FALSE]

\* int(rssi) of a value that is not None: [ok, has, n]
ToRssi(v) ==
    CASE v.k = "absent" -> [ok |-> TRUE, has |-> FALSE, n |-> 0]
      [] v.k = "num"    -> [ok |-> TRUE, has |-> TRUE, n |-> v.n]
      [] OTHER          -> [ok |-> FALSE, has |-> FALSE, n |-> 0]

NoObservation ==
    [ok |-> FALSE, mac |-> "", first_seen |-> 0, first_aware |-> FALSE,
     last_seen |-> 0, last_aware |-> FALSE, has_rssi |-> FALSE, rssi |-> 0,
     name |-> "", manufacturer |-> ""]

\* DeviceObservation(...) of the converted fields, or the None returned from
\* the except branch (ok = FALSE) when a conversion raised.
Observation(mac, data, first, last, rssi) ==
    IF first.ok /\ last.ok /\ rssi.ok
    THEN [ok |-> TRUE, mac |-> mac,
          first_seen |-> first.t, first_aware |-> first.aware,
          last_seen |-> last.t, last_aware |-> last.aware,
          has_rssi |-> rssi.has, rssi |-> rssi.n,
          name |-> OrStr(OrStr(data.name, data.essid), data.ssid),
          manufacturer |-> OrStr(data.manufacturer, data.vendor)]
    ELSE NoObservation

ToObservation(mac, data, clock) ==
    Observation(mac, data,
                ToDatetime(Or(data.first_seen, data.firstSeen), clock),
                ToDatetime(Or(data.last_seen, data.lastSeen), clock),
                ToRssi(Or(Or(data.rssi, data.power), data.signal)))

-----------------------------------------------------------------------------
(* Pairwise Scorer: DeviceCorrelator._calculate_confidence *)

Pos(x) == IF x > 0 THEN x ELSE 1

\* The denominator of the confidences computed under (W, R).
ConfUnit(W, R) == 100 * Pos(W) * Pos(R)

\* h hundredths as a confidence under (W, R)
Hundredths(h, W, R) == h * Pos(W) * Pos(R)

TimeDiff(wifi, bt) == Abs(wifi.first_seen - bt.first_seen)

\* Subtracting or comparing an aware and a naive datetime raises TypeError;
\* x / 0 raises ZeroDivisionError.
TimingRaises(wifi, bt, W) ==
    \/ wifi.first_aware # bt.first_aware
    \/ /\ TimeDiff(wifi, bt) <= W
       /\ W = 0
    \/ /\ TimeDiff(wifi, bt) > W
       /\ \/ wifi.first_aware # bt.last_aware
          \/ /\ wifi.first_seen <= bt.last_seen
             /\ bt.first_aware # wifi.last_aware

RssiRaises(wifi, bt, R) ==
    /\ wifi.has_rssi /\ bt.has_rssi
    /\ Abs(wifi.rssi - bt.rssi) <= R
    /\ R = 0

\* The linear decay applied at every time difference, beyond the window too
TimingScoreUnguarded(wifi, bt, W, R) == 50 * (W - TimeDiff(wifi, bt)) * Pos(R)

\* A window that is open at its edge: time_diff < window
TimingScoreOpenWindow(wifi, bt, W, R) ==
    IF TimeDiff(wifi, bt) < W
    THEN 50 * (W - TimeDiff(wifi, bt)) * Pos(R)
    ELSE IF wifi.first_seen <= bt.last_seen /\ bt.first_seen <= wifi.last_seen
         THEN Hundredths(25, W, R)
         ELSE 0

\* 0.5 * (1 - time_diff / window), else 0.25 for overlapping presence
TimingScore(wifi, bt, W, R) ==
    IF TimeDiff(wifi, bt) <= W
    THEN 50 * (W - TimeDiff(wifi, bt)) * Pos(R)
    ELSE IF wifi.first_seen <= bt.last_seen /\ bt.first_seen <= wifi.last_seen
         THEN Hundredths(25, W, R)
         ELSE 0

\* A scorer that gives equal manufacturers the credit of a partial match
ManufacturerScorePartial(wifi, bt, W, R) ==
    IF wifi.manufacturer # "" /\ bt.manufacturer # ""
         /\ Prefix(Lower(wifi.manufacturer), 5) = Prefix(Lower(bt.manufacturer), 5)
    THEN Hundredths(10, W, R)
    ELSE 0

\* A comparison of the manufacturers as they are written
ManufacturerScoreCaseSensitive(wifi, bt, W, R) ==
    IF wifi.manufacturer # "" /\ bt.manufacturer # ""
    THEN IF wifi.manufacturer = bt.manufacturer THEN Hundredths(20, W, R)
         ELSE IF Prefix(wifi.manufacturer, 5) = Prefix(bt.manufacturer, 5)
              THEN Hundredths(10, W, R)
              ELSE 0
    ELSE 0

\* +0.2 for the same manufacturer, +0.1 for the same first five characters
ManufacturerScore(wifi, bt, W, R) ==
    IF wifi.manufacturer # "" /\ bt.manufacturer # ""
    THEN LET wifi_mfg == Lower(wifi.manufacturer)
             bt_mfg   == Lower(bt.manufacturer)
         IN  IF wifi_mfg = bt_mfg THEN Hundredths(20, W, R)
             ELSE IF Prefix(wifi_mfg, 5) = Prefix(bt_mfg, 5) THEN Hundredths(10, W, R)
             ELSE 0
    ELSE 0

\* A comparison of the prefixes as they are written
SameOuiCaseSensitive(wifi, bt) == Prefix(wifi.mac, 8) = Prefix(bt.mac, 8)

\* wifi.mac[:8].upper() == bt.mac[:8].upper()
SameOui(wifi, bt) == Upper(Prefix(wifi.mac, 8)) = Upper(Prefix(bt.mac, 8))

\* A scorer that ignores the identifiers
OuiScoreNone(wifi, bt, W, R) == 0

\* +0.15 for the same OUI
OuiScore(wifi, bt, W, R) == IF SameOui(wifi, bt) THEN Hundredths(15, W, R) ELSE 0

\* 0.1 * (1 - rssi_diff / rssi_threshold)
RssiScore(wifi, bt, W, R) ==
    IF wifi.has_rssi /\ bt.has_rssi /\ Abs(wifi.rssi - bt.rssi) <= R
    THEN 10 * (R - Abs(wifi.rssi - bt.rssi)) * Pos(W)
    ELSE 0

NameScore(wifi, bt, W, R) ==
    IF wifi.name # "" /\ bt.name # "" THEN Hundredths(5, W, R) ELSE 0

\* min(confidence, 1.0)
Clamp(c, W, R) == Min(c, ConfUnit(W, R))

\* [raised, value]: value is the returned confidence, over ConfUnit(W, R)
CalculateConfidence(wifi, bt, W, R) ==
    IF TimingRaises(wifi, bt, W) \/ RssiRaises(wifi, bt, R)
    THEN [raised |-> TRUE, value |-> 0]
    ELSE [raised |-> FALSE,
          value |-> Clamp(TimingScore(wifi, bt, W, R) + ManufacturerScore(wifi, bt, W, R)
                          + OuiScore(wifi, bt, W, R) + RssiScore(wifi, bt, W, R)
                          + NameScore(wifi, bt, W, R), W, R)]

-----------------------------------------------------------------------------
(* DeviceCorrelator._get_correlation_reason *)

RECURSIVE Join(_)
\* "; ".join(reasons)
Join(reasons) ==
    IF reasons = <<>> THEN ""
    ELSE IF Len(reasons) = 1 THEN reasons[1]
    ELSE reasons[1] \o "; " \o Join(Tail(reasons))

\* A reason without the fallback
ReasonTextNoFallback(reasons) == Join(reasons)

\* "; ".join(reasons) if reasons else "timing overlap"
ReasonText(reasons) == IF reasons # <<>> THEN Join(reasons) ELSE "timing overlap"

GetCorrelationReason(wifi, bt, W, R) ==
    LET r1 == IF TimeDiff(wifi, bt) <= W
              THEN <<"appeared within " \o ToString(TimeDiff(wifi, bt)) \o "s">>
              ELSE <<>>
        r2 == IF SameOui(wifi, bt) THEN <<"same OUI">> ELSE <<>>
        r3 == IF /\ wifi.manufacturer # "" /\ bt.manufacturer # ""
                 /\ Lower(wifi.manufacturer) = Lower(bt.manufacturer)
              THEN <<"same manufacturer (" \o wifi.manufacturer \o ")">>
              ELSE <<>>
        r4 == IF wifi.has_rssi /\ bt.has_rssi /\ Abs(wifi.rssi - bt.rssi) <= R
              THEN <<"similar signal strength">>
              ELSE <<>>
    IN  ReasonText(r1 \o r2 \o r3 \o r4)

-----------------------------------------------------------------------------
(* The configuration of the global correlator: DeviceCorrelator() *)

time_window == 30
rssi_threshold == 20
DefaultMinConfidence == 50
PersistThreshold == 70

\* h hundredths as a confidence of the global correlator
Conf(h) == Hundredths(h, time_window, rssi_threshold)

\* round(confidence, 2): to the nearest hundredth, a tie to the even one
Round2(c, W, R) ==
    LET u == Pos(W) * Pos(R)
        q == c \div u
        r == c % u
    IN  IF 2 * r > u \/ (2 * r = u /\ q % 2 = 1) THEN (q + 1) * u ELSE q * u

-----------------------------------------------------------------------------
(* Correlation Store: utils/database.py *)

NoTime == 0 - 1
NoMetadata == <<>>

Row(wifi_mac, bt_mac, confidence, first_seen, last_seen, metadata) ==
    [wifi_mac |-> wifi_mac, bt_mac |-> bt_mac, confidence |-> confidence,
     first_seen |-> first_seen, last_seen |-> last_seen, metadata |-> metadata]

\* A table without the UNIQUE(wifi_mac, bt_mac) constraint
NeverConflicts(row, wifi_mac, bt_mac) == FALSE

\* The row the UNIQUE(wifi_mac, bt_mac) constraint conflicts with
Conflicts(row, wifi_mac, bt_mac) == row.wifi_mac = wifi_mac /\ row.bt_mac = bt_mac

\* INSERT OR REPLACE: the conflicting row is deleted and a new one inserted
UpsertReplace(table, wifi_mac, bt_mac, confidence, metadata, ts) ==
    Append(SelectSeq(table, LAMBDA row : ~Conflicts(row, wifi_mac, bt_mac)),
           Row(wifi_mac, bt_mac, confidence, ts, ts, metadata))

\* INSERT ... ON CONFLICT(wifi_mac, bt_mac) DO UPDATE SET confidence, last_seen,
\* metadata; first_seen keeps its DEFAULT CURRENT_TIMESTAMP of the insert.
Upsert(table, wifi_mac, bt_mac, confidence, metadata, ts) ==
    IF \E i \in 1..Len(table) : Conflicts(table[i], wifi_mac, bt_mac)
    THEN [i \in 1..Len(table) |->
             IF Conflicts(table[i], wifi_mac, bt_mac)
             THEN [table[i] EXCEPT !.confidence = confidence,
                                   !.last_seen = ts,
                                   !.metadata = metadata]
             ELSE table[i]]
    ELSE Append(table, Row(wifi_mac, bt_mac, confidence, ts, ts, metadata))

\* A query without its WHERE clause
SelectUnfiltered(table, minc) == table

RECURSIVE SelectSeq2(_, _)
\* WHERE confidence >= ?
SelectSeq2(table, minc) ==
    IF table = <<>> THEN <<>>
    ELSE IF table[1].confidence >= minc
         THEN <<table[1]>> \o SelectSeq2(Tail(table), minc)
         ELSE SelectSeq2(Tail(table), minc)

IsSortedDesc(s) == \A i \in 1..(Len(s) - 1) : s[i].confidence >= s[i + 1].confidence

\* The orders of the sequence s (as index permutations)
Perms(n) == {p \in [1..n -> 1..n] : \A i, j \in 1..n : i # j => p[i] # p[j]}

\* SELECT ... WHERE confidence >= ? ORDER BY confidence DESC: every order of the
\* selected rows that is descending by confidence (SQL leaves ties unordered).
DbGetCorrelations(table, minc) ==
    LET sel == SelectSeq2(table, minc)
    IN  {s \in {[i \in 1..Len(sel) |-> sel[p[i]]] : p \in Perms(Len(sel))} :
            IsSortedDesc(s)}

-----------------------------------------------------------------------------
(* Correlation Engine: DeviceCorrelator.correlate *)

\* One entry of a returned list.  A live candidate has no first_seen/last_seen
\* key (NoTime), a historical one no wifi_name/bt_name key ("").
Candidate(wifi_mac, wifi_name, bt_mac, bt_name, confidence, reason, first_seen, last_seen) ==
    [wifi_mac |-> wifi_mac, wifi_name |-> wifi_name, bt_mac |-> bt_mac,
     bt_name |-> bt_name, confidence |-> confidence, reason |-> reason,
     first_seen |-> first_seen, last_seen |-> last_seen]

RECURSIVE InsertBeforeTies(_, _)
\* A sort that is not stable: x goes in front of the entries of its confidence
InsertBeforeTies(sorted, x) ==
    IF sorted = <<>> THEN <<x>>
    ELSE IF sorted[1].confidence > x.confidence
         THEN <<sorted[1]>> \o InsertBeforeTies(Tail(sorted), x)
         ELSE <<x>> \o sorted

RECURSIVE InsertDesc(_, _)
\* x goes behind every entry whose confidence is at least its own
InsertDesc(sorted, x) ==
    IF sorted = <<>> THEN <<x>>
    ELSE IF sorted[1].confidence >= x.confidence
         THEN <<sorted[1]>> \o InsertDesc(Tail(sorted), x)
         ELSE <<x>> \o sorted

RECURSIVE SortDesc(_)
\* list.sort(key=lambda x: x['confidence'], reverse=True): stable
SortDesc(s) ==
    IF s = <<>> THEN <<>>
    ELSE InsertDesc(SortDesc(SubSeq(s, 1, Len(s) - 1)), s[Len(s)])

\* An add_correlation call of a pass, and whether the store raised on it
Request(wifi_mac, bt_mac, confidence, metadata, failed) ==
    [wifi_mac |-> wifi_mac, bt_mac |-> bt_mac, confidence |-> confidence,
     metadata |-> metadata, failed |-> failed]

\* The locals of correlate: appended is the list before the final sort
NoPass == [raised |-> FALSE, appended |-> <<>>, correlations |-> <<>>, requests |-> <<>>]

\* A pass without the try/except around add_correlation
AbortOnPersistFailure(acc) == [acc EXCEPT !.raised = TRUE]

\* except Exception: logger.debug(...) -- the pass goes on
OnPersistFailure(acc) == acc

\* A pass that gives up at a record it cannot normalize
AbortOnMalformed(acc) == [acc EXCEPT !.raised = TRUE]

\* if not wifi_obs: continue / if not bt_obs: continue
OnMalformed(acc) == acc

\* A pass that persists whatever it retains
PersistRetained(confidence, W, R) == TRUE

\* if confidence >= 0.7
Persistable(confidence, W, R) == confidence >= Hundredths(PersistThreshold, W, R)

\* if confidence > self.min_confidence
RetainedAbove(confidence, minc) == confidence > minc

\* if confidence >= self.min_confidence
Retained(confidence, minc) == confidence >= minc

\* The inner loop body once the pair is normalized and scored (c)
Decide(acc, wifi_obs, bt_obs, c, minc, W, R, failed) ==
    LET kept  == [acc EXCEPT !.appended = Append(@,
                     Candidate(wifi_obs.mac, wifi_obs.name, bt_obs.mac, bt_obs.name,
                               Round2(c.value, W, R),
                               GetCorrelationReason(wifi_obs, bt_obs, W, R),
                               NoTime, NoTime))]
        asked == [kept EXCEPT !.requests = Append(@,
                     Request(wifi_obs.mac, bt_obs.mac, c.value,
                             <<wifi_obs.name, bt_obs.name>>, failed))]
    IN  IF ~wifi_obs.ok \/ ~bt_obs.ok THEN OnMalformed(acc)
        ELSE IF c.raised THEN [acc EXCEPT !.raised = TRUE]
        ELSE IF ~Retained(c.value, minc) THEN acc
        ELSE IF ~Persistable(c.value, W, R) THEN kept
        ELSE IF failed THEN OnPersistFailure(asked)
        ELSE asked

\* The body of the inner loop for one (wifi, bluetooth) pair
ScorePair(acc, w, b, minc, W, R, clock, failing) ==
    Decide(acc, ToObservation(w.mac, w, clock), ToObservation(b.mac, b, clock),
           CalculateConfidence(ToObservation(w.mac, w, clock),
                               ToObservation(b.mac, b, clock), W, R),
           minc, W, R, <<w.mac, b.mac>> \in failing)

RECURSIVE CorrelateFrom(_, _, _, _, _, _, _, _, _)
\* The two nested loops from the k-th pair on: the pairs are visited wifi-major,
\* in the iteration order of the two dicts, until one raises.
CorrelateFrom(k, acc, wifi_devices, bt_devices, minc, W, R, clock, failing) ==
    IF k > Len(wifi_devices) * Len(bt_devices) \/ acc.raised THEN acc
    ELSE CorrelateFrom(k + 1,
                       ScorePair(acc, wifi_devices[((k - 1) \div Len(bt_devices)) + 1],
                                 bt_devices[((k - 1) % Len(bt_devices)) + 1],
                                 minc, W, R, clock, failing),
                       wifi_devices, bt_devices, minc, W, R, clock, failing)

\* correlations.sort(key=lambda x: x['confidence'], reverse=True)
SortCorrelations(final) == [final EXCEPT !.correlations = SortDesc(final.appended)]

\* [raised, appended, correlations, requests]: the list is sorted at the end
Correlate(wifi_devices, bt_devices, minc, W, R, clock, failing) ==
    SortCorrelations(CorrelateFrom(1, NoPass, wifi_devices, bt_devices, minc, W, R,
                                   clock, failing))

RECURSIVE ApplyRequests(_, _, _)
\* The store after the add_correlation calls of a pass that did not fail
ApplyRequests(table, requests, ts) ==
    IF requests = <<>> THEN table
    ELSE LET q == requests[1]
         IN  ApplyRequests(IF q.failed THEN table
                           ELSE Upsert(table, q.wifi_mac, q.bt_mac, q.confidence,
                                       q.metadata, ts),
                           Tail(requests), ts)

-----------------------------------------------------------------------------
(* Reconciler: get_correlations *)

HistoricalReason == "historical correlation"

\* A lookup that compares the wifi_mac of one with the bt_mac of the other
ExistingCrossed(rs, h) ==
    \E i \in 1..Len(rs) : rs[i].wifi_mac = h.bt_mac /\ rs[i].bt_mac = h.wifi_mac

\* next((r for r in results if same wifi_mac and same bt_mac), None)
\* A reconciler that never finds a live candidate for the pair of a row
ExistingNever(rs, h) == FALSE

Existing(rs, h) == \E i \in 1..Len(rs) : rs[i].wifi_mac = h.wifi_mac /\ rs[i].bt_mac = h.bt_mac

RECURSIVE Merge(_, _)
\* for h in historical: append h unless results has an entry for its pair
Merge(rs, historical) ==
    IF historical = <<>> THEN rs
    ELSE LET h == historical[1]
         IN  Merge(IF Existing(rs, h) THEN rs
                   ELSE Append(rs, Candidate(h.wifi_mac, "", h.bt_mac, "", h.confidence,
                                             HistoricalReason, h.first_seen, h.last_seen)),
                   Tail(historical))

\* A reconciler that runs the engine whatever the maps hold
RunsEngineAlways(wifi_devices, bt_devices) == TRUE

\* if wifi_devices and bt_devices
RunsEngine(wifi_devices, bt_devices) == wifi_devices # <<>> /\ bt_devices # <<>>

\* A reconciler that gives up its live results when the read fails
DropOnReadFailure(rs) == <<>>

\* except Exception: logger.debug(...) -- the results stay as they are
OnReadFailure(rs) == rs

\* The part of get_correlations after the engine has run.  db_error: the
\* historical read raises; historical: the rows it returns otherwise.
Finish(engine, include_historical, db_error, historical) ==
    LET merged == IF ~include_historical THEN engine.correlations
                  ELSE IF db_error THEN OnReadFailure(engine.correlations)
                  ELSE Merge(engine.correlations, historical)
    IN  [raised |-> engine.raised,
         appended |-> engine.appended,
         live |-> engine.correlations,
         merged |-> IF engine.raised THEN <<>> ELSE merged,
         results |-> IF engine.raised THEN <<>> ELSE SortDesc(merged),
         requests |-> engine.requests,
         historical |-> IF include_historical /\ ~db_error /\ ~engine.raised
                        THEN historical ELSE <<>>,
         db_error |-> include_historical /\ db_error /\ ~engine.raised]

\* The live part of get_correlations.  failing: the pairs whose upsert raises.
Live(wifi_devices, bt_devices, minc, clock, failing) ==
    IF RunsEngine(wifi_devices, bt_devices)
    THEN Correlate(wifi_devices, bt_devices, minc, time_window, rssi_threshold,
                   clock, failing)
    ELSE NoPass

-----------------------------------------------------------------------------
(* The upstream caches app.wifi_networks, app.wifi_clients, app.bt_devices *)
(* as the routes find them: dicts in insertion order.                      *)

Seen == 0 - 10
SeenEarlier == 0 - 25
SeenLongAgo == 0 - 65

WifiA == Device("AA:BB:CC:11:22:33", V("iso", Seen), V("iso", Seen), Absent,
                "HomeNet", "Apple")
WifiB == Device("11:22:33:44:55:66", V("num", 1000 * SeenEarlier), V("num", 1000 * Seen),
                V("num", 0 - 60), "Cafe", "")
WifiBad == Device("DE:AD:BE:EF:00:01", V("text", 0), Absent, Absent, "Broken", "Apple")

BtA == Device("AA:BB:CC:44:55:66", V("iso", Seen), V("iso", Seen), V("num", 0 - 60),
              "iPhone", "Apple")
BtB == Device("aa:bb:cc:77:88:99", V("iso", Seen), V("iso", Seen), V("num", 0 - 60),
              "Watch", "Apple Inc.")
BtZ == Device("77:88:99:AA:BB:CC", V("isoz", Seen), V("isoz", Seen), Absent, "Tag", "")
\* Seen long before the others, unnamed: nothing in common with a WiFi device
BtQ == Device("22:33:44:55:66:77", V("iso", SeenLongAgo), V("iso", SeenLongAgo), Absent,
              "", "")

\* The subsequences of a sequence
SubSeqs(s) ==
    {[i \in 1..Cardinality(ix) |->
         s[CHOOSE j \in ix : Cardinality({k \in ix : k < j}) = i - 1]] :
     ix \in SUBSET (1..Len(s))}

NetworkCaches == SubSeqs(<<WifiA, WifiBad>>)
ClientCaches == SubSeqs(<<WifiB>>)
BtCaches == {<<>>, <<BtA>>, <<BtB, BtA>>, <<BtZ, BtQ>>, <<BtA, BtZ>>}

MinConfidences == {Conf(0), Conf(DefaultMinConfidence), Conf(90)}

HasKey(d, mac) == \E i \in 1..Len(d) : d[i].mac = mac

\* d.get(mac): the record, or an Absent-only record (None) when missing
EmptyDict(mac) == Device(mac, Absent, Absent, Absent, "", "")
Get(d, mac) ==
    IF HasKey(d, mac) THEN d[CHOOSE i \in 1..Len(d) : d[i].mac = mac]
    ELSE EmptyDict(mac)

\* `not device`: None, or a dict without any key
Falsy(d, mac) == ~HasKey(d, mac) \/ Get(d, mac) = EmptyDict(mac)

RECURSIVE DictUpdate(_, _)
\* a.update(b): a key of a keeps its place and takes b's value
DictUpdate(a, b) ==
    IF b = <<>> THEN a
    ELSE IF HasKey(a, b[1].mac)
         THEN DictUpdate([i \in 1..Len(a) |-> IF a[i].mac = b[1].mac THEN b[1] ELSE a[i]],
                         Tail(b))
         ELSE DictUpdate(Append(a, b[1]), Tail(b))

\* The pairs a pass asks the store to persist
Asked(requests) == {<<requests[i].wifi_mac, requests[i].bt_mac>> : i \in 1..Len(requests)}

-----------------------------------------------------------------------------
(* The ledger: what the upserts committed so far amount to *)

LedgerUpsert(l, wifi_mac, bt_mac, confidence, ts) ==
    IF \E e \in l : e.wifi_mac = wifi_mac /\ e.bt_mac = bt_mac
    THEN {IF e.wifi_mac = wifi_mac /\ e.bt_mac = bt_mac
          THEN [e EXCEPT !.confidence = confidence, !.at = ts]
          ELSE e : e \in l}
    ELSE l \cup {[wifi_mac |-> wifi_mac, bt_mac |-> bt_mac, first_at |-> ts,
                  confidence |-> confidence, at |-> ts]}

RECURSIVE LedgerApply(_, _, _)
LedgerApply(l, requests, ts) ==
    IF requests = <<>> THEN l
    ELSE LET q == requests[1]
         IN  LedgerApply(IF q.failed THEN l
                         ELSE LedgerUpsert(l, q.wifi_mac, q.bt_mac, q.confidence, ts),
                         Tail(requests), ts)

-----------------------------------------------------------------------------
(* State *)

NoCall ==
    [op |-> "none", wifi_mac |-> "", bt_mac |-> "",
     wifi_networks |-> <<>>, wifi_clients |-> <<>>, bt_devices |-> <<>>]

\* The arguments and the locals of a get_correlations call
NoLocals ==
    [called |-> FALSE, wifi_devices |-> <<>>, bt_devices |-> <<>>, min_confidence |-> 0,
     include_historical |-> FALSE,
     raised |-> FALSE, appended |-> <<>>, live |-> <<>>, merged |-> <<>>,
     results |-> <<>>, requests |-> <<>>, historical |-> <<>>, db_error |-> FALSE]

NoScore == [phase |-> "off"]
NoWriters == <<>>
NoConn == {}
NoThreads == <<>>
NoNorm == [phase |-> "off"]
NoGps == [phase |-> "off"]

Init ==
    /\ store = <<>>
    /\ now = 0
    /\ min_confidence = Conf(DefaultMinConfidence)
    /\ call = NoCall
    /\ outcome = "none"
    /\ results = <<>>
    /\ pass = NoLocals
    /\ ledger = {}
    /\ sc = NoScore
    /\ writers = NoWriters
    /\ db_lock = NoConn
    /\ threads = NoThreads
    /\ norm = NoNorm
    /\ gps = NoGps

\* A request is served when no response is pending
Idle == outcome = "none"

\* Time passes
Tick ==
    /\ Idle
    /\ now < MaxClock
    /\ now' = now + 1
    /\ UNCHANGED <<store, min_confidence, call, outcome, results, pass, ledger, aux>>

\* The ways a get_correlations call can end once the engine has run: the
\* historical read raises, or returns the rows in one of the orders SQL allows.
Outcomes(wifi_devices, bt_devices, minc, include_historical, engine) ==
    LET reads == include_historical /\ ~engine.raised
    IN  {[called |-> TRUE, wifi_devices |-> wifi_devices, bt_devices |-> bt_devices,
          min_confidence |-> minc, include_historical |-> include_historical]
         @@ Finish(engine, include_historical, db_error, historical) :
           db_error \in IF reads THEN BOOLEAN ELSE {FALSE},
           historical \in IF reads
                          THEN DbGetCorrelations(ApplyRequests(store, engine.requests, now),
                                                 minc)
                          ELSE {<<>>}}

\* One get_correlations call, with every way the store may behave during it:
\* each add_correlation may raise, and so may the historical read.
Calls(wifi_devices, bt_devices, minc, include_historical) ==
    UNION {Outcomes(wifi_devices, bt_devices, minc, include_historical,
                    Live(wifi_devices, bt_devices, minc, now, failing)) :
           failing \in SUBSET Asked(Live(wifi_devices, bt_devices, minc, now, {}).requests)}

\* The effects of the call r on the store and on the global correlator
Reconcile(r) ==
    /\ store' = ApplyRequests(store, r.requests, now)
    /\ ledger' = LedgerApply(ledger, r.requests, now)
    /\ min_confidence' = IF RunsEngine(r.wifi_devices, r.bt_devices)
                         THEN r.min_confidence ELSE min_confidence
    /\ pass' = r
    /\ UNCHANGED <<now, aux>>

\* GET /correlation
ListCorrelations ==
    /\ Idle
    /\ \E nets \in NetworkCaches, clients \in ClientCaches, bts \in BtCaches,
          minc \in MinConfidences, hist \in BOOLEAN :
         \E r \in Calls(DictUpdate(nets, clients), bts, minc, hist) :
           /\ Reconcile(r)
           /\ call' = [NoCall EXCEPT !.op = "list", !.wifi_networks = nets,
                                     !.wifi_clients = clients, !.bt_devices = bts]
           /\ outcome' = IF r.raised THEN "error" ELSE "ok"
           /\ results' = r.results

AskedWifi == {WifiA.mac, WifiB.mac}
AskedBt == {BtA.mac, BtZ.mac, BtQ.mac}

\* POST /correlation/analyze without wifi_mac or bt_mac: 400
AnalyzeBadRequest ==
    /\ Idle
    /\ \E wifi_mac \in AskedWifi \cup {""}, bt_mac \in AskedBt \cup {""} :
         /\ wifi_mac = "" \/ bt_mac = ""
         /\ call' = [NoCall EXCEPT !.op = "analyze", !.wifi_mac = wifi_mac,
                                   !.bt_mac = bt_mac]
    /\ outcome' = "bad_request"
    /\ results' = <<>>
    /\ pass' = NoLocals
    /\ UNCHANGED <<store, now, min_confidence, ledger, aux>>

\* A lookup that never looks in wifi_clients
NetworksOnly(nets, clients, wifi_mac) == nets

\* wifi_networks.get(mac), else wifi_clients.get(mac)
WifiCache(nets, clients, wifi_mac) == IF Falsy(nets, wifi_mac) THEN clients ELSE nets

\* POST /correlation/analyze for a device that is not in the caches: 404
AnalyzeNotFound ==
    /\ Idle
    /\ \E nets \in NetworkCaches, clients \in ClientCaches, bts \in BtCaches,
          wifi_mac \in AskedWifi, bt_mac \in AskedBt :
         /\ \/ Falsy(WifiCache(nets, clients, wifi_mac), wifi_mac)
            \/ Falsy(bts, bt_mac)
         /\ call' = [NoCall EXCEPT !.op = "analyze", !.wifi_mac = wifi_mac,
                                   !.bt_mac = bt_mac, !.wifi_networks = nets,
                                   !.wifi_clients = clients, !.bt_devices = bts]
    /\ outcome' = "not_found"
    /\ results' = <<>>
    /\ pass' = NoLocals
    /\ UNCHANGED <<store, now, min_confidence, ledger, aux>>

\* POST /correlation/analyze for two devices found in the caches
AnalyzePair ==
    /\ Idle
    /\ \E nets \in NetworkCaches, clients \in ClientCaches, bts \in BtCaches,
          wifi_mac \in AskedWifi, bt_mac \in AskedBt :
         LET wifi_cache == WifiCache(nets, clients, wifi_mac)
         IN  /\ ~Falsy(wifi_cache, wifi_mac)
             /\ ~Falsy(bts, bt_mac)
             /\ \E r \in Calls(<<Get(wifi_cache, wifi_mac)>>, <<Get(bts, bt_mac)>>,
                               Conf(0), TRUE) :
                  /\ Reconcile(r)
                  /\ call' = [NoCall EXCEPT !.op = "analyze", !.wifi_mac = wifi_mac,
                                            !.bt_mac = bt_mac, !.wifi_networks = nets,
                                            !.wifi_clients = clients, !.bt_devices = bts]
                  /\ outcome' = IF r.raised THEN "error"
                                ELSE IF r.results # <<>> THEN "ok" ELSE "no_correlation"
                  /\ results' = IF r.raised \/ r.results = <<>> THEN <<>>
                                ELSE <<r.results[1]>>

\* The response is sent; the candidates of the request are discarded
Respond ==
    /\ ~Idle
    /\ call' = NoCall
    /\ outcome' = "none"
    /\ results' = <<>>
    /\ pass' = NoLocals
    /\ UNCHANGED <<store, now, min_confidence, ledger, aux>>

Next ==
    \/ Tick
    \/ ListCorrelations
    \/ AnalyzeBadRequest
    \/ AnalyzeNotFound
    \/ AnalyzePair
    \/ Respond

Spec == Init /\ [][Next]_vars

-----------------------------------------------------------------------------
(* The store on its own: add_correlation called directly *)

StorePairs == {<<WifiA.mac, BtA.mac>>, <<BtA.mac, WifiA.mac>>}
StoreConfidences == {Conf(50), Conf(90)}

\* add_correlation(wifi_mac, bt_mac, confidence): the statement runs and
\* get_db commits
AddCorrelation ==
    /\ Idle
    /\ \E p \in StorePairs, confidence \in StoreConfidences :
         /\ store' = Upsert(store, p[1], p[2], confidence, NoMetadata, now)
         /\ ledger' = LedgerUpsert(ledger, p[1], p[2], confidence, now)
         /\ call' = [NoCall EXCEPT !.op = "add", !.wifi_mac = p[1], !.bt_mac = p[2]]
    /\ outcome' = "ok"
    /\ UNCHANGED <<now, min_confidence, results, pass, aux>>

\* add_correlation raises: get_db rolls back and re-raises
AddCorrelationFails ==
    /\ Idle
    /\ \E p \in StorePairs :
         call' = [NoCall EXCEPT !.op = "add", !.wifi_mac = p[1], !.bt_mac = p[2]]
    /\ outcome' = "error"
    /\ UNCHANGED <<store, now, min_confidence, results, pass, ledger, aux>>

NextStore ==
    \/ Tick
    \/ AddCorrelation
    \/ AddCorrelationFails
    \/ Respond

SpecStore == Init /\ [][NextStore]_vars

-----------------------------------------------------------------------------
(* Concurrent passes: every thread has its own connection (get_connection), *)
(* add_correlation runs its statement in a transaction of that connection   *)
(* and get_db commits it, or rolls it back when the statement or the commit *)
(* raises.  SQLite lets one connection write at a time: the statement takes *)
(* the write lock of the database file, the commit or rollback releases it, *)
(* and a statement that finds the lock taken raises OperationalError.       *)

Conns == 1..MaxWriters

\* A connection outside add_correlation
IdleWriter ==
    [pc |-> "idle", wifi_mac |-> "", bt_mac |-> "", confidence |-> 0, ts |-> NoTime,
     txn |-> <<>>]

\* sqlite3.connect(...) for a thread that has no connection yet
Connect(c) ==
    /\ c \notin DOMAIN writers
    /\ writers' = writers @@ (c :> IdleWriter)
    /\ UNCHANGED <<store, now, min_confidence, call, outcome, results, pass, ledger, sc,
                   db_lock, threads, norm, gps>>

\* conn.execute(INSERT ... ON CONFLICT ...): the statement runs in the
\* transaction of c; CURRENT_TIMESTAMP is the time of the statement
Execute(c) ==
    /\ c \in DOMAIN writers
    /\ writers[c].pc = "idle"
    /\ db_lock = NoConn
    /\ \E p \in StorePairs, confidence \in StoreConfidences :
         writers' = [writers EXCEPT ![c] =
                        [pc |-> "executed", wifi_mac |-> p[1], bt_mac |-> p[2],
                         confidence |-> confidence, ts |-> now,
                         txn |-> Upsert(store, p[1], p[2], confidence, NoMetadata, now)]]
    /\ db_lock' = {c}
    /\ UNCHANGED <<store, now, min_confidence, call, outcome, results, pass, ledger, sc,
                   threads, norm, gps>>

\* The statement finds the database locked by another connection: it raises,
\* get_db rolls back and re-raises
ExecuteBusy(c) ==
    /\ c \in DOMAIN writers
    /\ writers[c].pc = "idle"
    /\ db_lock # NoConn
    /\ \E p \in StorePairs :
         writers' = [writers EXCEPT ![c] =
                        [IdleWriter EXCEPT !.pc = "raised", !.wifi_mac = p[1],
                                           !.bt_mac = p[2]]]
    /\ UNCHANGED <<store, now, min_confidence, call, outcome, results, pass, ledger, sc,
                   db_lock, threads, norm, gps>>

\* conn.commit(): the transaction of c becomes the table
Commit(c) ==
    /\ c \in DOMAIN writers
    /\ writers[c].pc = "executed"
    /\ store' = writers[c].txn
    /\ ledger' = LedgerUpsert(ledger, writers[c].wifi_mac, writers[c].bt_mac,
                              writers[c].confidence, writers[c].ts)
    /\ writers' = [writers EXCEPT ![c] = IdleWriter]
    /\ db_lock' = NoConn
    /\ UNCHANGED <<now, min_confidence, call, outcome, results, pass, sc, threads, norm, gps>>

\* conn.commit() raises: conn.rollback(), and the exception goes to the caller
CommitFails(c) ==
    /\ c \in DOMAIN writers
    /\ writers[c].pc = "executed"
    /\ writers' = [writers EXCEPT ![c] =
                      [IdleWriter EXCEPT !.pc = "raised", !.wifi_mac = writers[c].wifi_mac,
                                         !.bt_mac = writers[c].bt_mac]]
    /\ db_lock' = NoConn
    /\ UNCHANGED <<store, now, min_confidence, call, outcome, results, pass, ledger, sc,
                   threads, norm, gps>>

\* correlate catches the exception, logs it and goes on
Swallow(c) ==
    /\ c \in DOMAIN writers
    /\ writers[c].pc = "raised"
    /\ writers' = [writers EXCEPT ![c] = IdleWriter]
    /\ UNCHANGED <<store, now, min_confidence, call, outcome, results, pass, ledger, sc,
                   db_lock, threads, norm, gps>>

NextConc ==
    \/ Tick
    \/ \E c \in Conns : Connect(c)
    \/ \E c \in Conns : Execute(c)
    \/ \E c \in Conns : ExecuteBusy(c)
    \/ \E c \in Conns : Commit(c)
    \/ \E c \in Conns : CommitFails(c)
    \/ \E c \in Conns : Swallow(c)

SpecConc == Init /\ [][NextConc]_vars

-----------------------------------------------------------------------------
(* The scorer on its own: a correlator with any configuration, applied to a *)
(* pair of normalized observations                                          *)

\* DeviceObservation(mac, first_seen, last_seen, rssi, name, manufacturer)
Obs(mac, first_seen, last_seen, aware, has_rssi, rssi, name, manufacturer) ==
    [ok |-> TRUE, mac |-> mac, first_seen |-> first_seen, first_aware |-> aware,
     last_seen |-> last_seen, last_aware |-> aware, has_rssi |-> has_rssi,
     rssi |-> rssi, name |-> name, manufacturer |-> manufacturer]

WifiObservations ==
    {Obs(WifiA.mac, 0, last, FALSE, rssi # 0, rssi, name, "Apple") :
        last \in {0, 50}, rssi \in {0, 0 - 60}, name \in {"", "HomeNet"}}
    \cup {Obs(WifiA.mac, 0, 0, FALSE, FALSE, 0, "", "")}

BtObservations ==
    {Obs(mac, first, first, FALSE, rssi # 0, rssi, "iPhone", manufacturer) :
        mac \in {BtA.mac, BtB.mac, BtZ.mac}, first \in {0, 10, 30, 45},
        rssi \in {0, 0 - 60, 0 - 50, 0 - 30},
        manufacturer \in {"", "APPLE", "Apple Inc.", "Samsung"}}
    \cup {Obs(BtA.mac, 0, 0, TRUE, FALSE, 0, "iPhone", "Apple")}
    \cup {Obs(BtA.mac, 0, 0, FALSE, FALSE, 0, "iPhone", "Apple"),
          Obs(BtA.mac, 45, 45, FALSE, FALSE, 0, "", "")}

TimeWindows == {0 - 1, 0, 30, 60}
RssiThresholds == {0 - 1, 0, 20}

\* DeviceCorrelator(time_window_seconds = W, rssi_threshold = R) and the two
\* observations it is about to score
InitScore ==
    /\ store = <<>>
    /\ now = 0
    /\ min_confidence = Conf(DefaultMinConfidence)
    /\ call = NoCall
    /\ outcome = "none"
    /\ results = <<>>
    /\ pass = NoLocals
    /\ ledger = {}
    /\ sc \in {[phase |-> "input", wifi |-> wifi, bt |-> bt, W |-> W, R |-> R,
                raised |-> FALSE, value |-> 0, reason |-> ""] :
                 wifi \in WifiObservations, bt \in BtObservations,
                 W \in TimeWindows, R \in RssiThresholds}
    /\ writers = NoWriters
    /\ db_lock = NoConn
    /\ threads = NoThreads
    /\ norm = NoNorm
    /\ gps = NoGps

\* self._calculate_confidence(wifi_obs, bt_obs)
Score ==
    /\ sc.phase = "input"
    /\ sc' = [sc EXCEPT
                !.phase = "scored",
                !.raised = CalculateConfidence(sc.wifi, sc.bt, sc.W, sc.R).raised,
                !.value = CalculateConfidence(sc.wifi, sc.bt, sc.W, sc.R).value]
    /\ UNCHANGED <<store, now, min_confidence, call, outcome, results, pass, ledger,
                   writers, db_lock, threads, norm, gps>>

\* self._get_correlation_reason(wifi_obs, bt_obs), for a pair that was scored
Explain ==
    /\ sc.phase = "scored"
    /\ ~sc.raised
    /\ sc' = [sc EXCEPT !.phase = "explained",
                        !.reason = GetCorrelationReason(sc.wifi, sc.bt, sc.W, sc.R)]
    /\ UNCHANGED <<store, now, min_confidence, call, outcome, results, pass, ledger,
                   writers, db_lock, threads, norm, gps>>

NextScore ==
    \/ Score
    \/ Explain

SpecScore == InitScore /\ [][NextScore]_vars

-----------------------------------------------------------------------------
(* get_correlations from several request threads at once.  The threads     *)
(* share the module-level correlator: each call assigns its min_confidence *)
(* argument to correlator.min_confidence and then runs correlate, which    *)
(* reads self.min_confidence again for every pair it has scored.           *)

MaxThreads == 2

Threads == 1..MaxThreads

\* The caches every thread snapshots
RaceWifi == <<WifiA, WifiB>>
RaceBt == <<BtA>>

IdleThread ==
    [pc |-> "idle", min_confidence |-> 0, include_historical |-> FALSE, k |-> 1,
     acc |-> NoPass, out |-> Finish(NoPass, FALSE, FALSE, <<>>)]

InitRace ==
    /\ store = <<>>
    /\ now = 0
    /\ min_confidence = Conf(DefaultMinConfidence)
    /\ call = NoCall
    /\ outcome = "none"
    /\ results = <<>>
    /\ pass = NoLocals
    /\ ledger = {}
    /\ sc = NoScore
    /\ writers = NoWriters
    /\ db_lock = NoConn
    /\ threads = [t \in Threads |-> IdleThread]
    /\ norm = NoNorm
    /\ gps = NoGps

\* The requests a loop iteration added to the pass
NewRequests(acc, next) == SubSeq(next.requests, Len(acc.requests) + 1, Len(next.requests))

\* get_correlations up to the call of correlate: the caches are not empty, so
\* the argument is assigned to the shared correlator
Enter(t) ==
    /\ threads[t].pc = "idle"
    /\ RunsEngine(RaceWifi, RaceBt)
    /\ \E minc \in MinConfidences, include_historical \in BOOLEAN :
         /\ threads' = [threads EXCEPT ![t] =
                          [IdleThread EXCEPT !.pc = "loop", !.min_confidence = minc,
                                             !.include_historical = include_historical]]
         /\ min_confidence' = minc
    /\ UNCHANGED <<store, now, call, outcome, results, pass, ledger, sc, writers,
                   db_lock, norm, gps>>

\* The thread's loop has reached the pass next, which may have asked for upserts
Iterated(t, next) ==
    /\ threads' = [threads EXCEPT ![t].k = @ + 1, ![t].acc = next]
    /\ store' = ApplyRequests(store, NewRequests(threads[t].acc, next), now)
    /\ ledger' = LedgerApply(ledger, NewRequests(threads[t].acc, next), now)

\* One iteration of the inner loop of correlate: the pair is normalized, scored
\* and compared with self.min_confidence as it is now
Iterate(t) ==
    /\ threads[t].pc = "loop"
    /\ threads[t].k <= Len(RaceWifi) * Len(RaceBt)
    /\ ~threads[t].acc.raised
    /\ Iterated(t, ScorePair(threads[t].acc,
                             RaceWifi[((threads[t].k - 1) \div Len(RaceBt)) + 1],
                             RaceBt[((threads[t].k - 1) % Len(RaceBt)) + 1],
                             min_confidence, time_window, rssi_threshold, now, {}))
    /\ UNCHANGED <<now, min_confidence, call, outcome, results, pass, sc, writers,
                   db_lock, norm, gps>>

\* The loops are over: correlate sorts and returns, and get_correlations merges
\* the rows it reads with its own min_confidence argument
Return(t) ==
    /\ threads[t].pc = "loop"
    /\ threads[t].k > Len(RaceWifi) * Len(RaceBt) \/ threads[t].acc.raised
    /\ \E db_error \in IF threads[t].include_historical THEN BOOLEAN ELSE {FALSE} :
         \E historical \in IF threads[t].include_historical
                           THEN DbGetCorrelations(store, threads[t].min_confidence)
                           ELSE {<<>>} :
            threads' = [threads EXCEPT
                          ![t].pc = "done",
                          ![t].out = Finish(SortCorrelations(threads[t].acc),
                                            threads[t].include_historical,
                                            db_error, historical)]
    /\ UNCHANGED <<store, now, min_confidence, call, outcome, results, pass, ledger, sc,
                   writers, db_lock, norm, gps>>

\* The response is sent and the thread is free for the next request
Leave(t) ==
    /\ threads[t].pc = "done"
    /\ threads' = [threads EXCEPT ![t] = IdleThread]
    /\ UNCHANGED <<store, now, min_confidence, call, outcome, results, pass, ledger, sc,
                   writers, db_lock, norm, gps>>

NextRace ==
    \/ \E t \in Threads : Enter(t)
    \/ \E t \in Threads : Iterate(t)
    \/ \E t \in Threads : Return(t)
    \/ \E t \in Threads : Leave(t)

SpecRace == InitRace /\ [][NextRace]_vars

-----------------------------------------------------------------------------
(* get_correlations called directly, as the tests call the engine, on maps *)
(* whose timestamps come in every encoding and whose keys may be empty     *)

\* The encodings of a supplied timestamp: ISO-8601 string, epoch
\* milliseconds, datetime object
Encodings == {"iso", "num", "dt"}

\* The instant t in the encoding kind
Stamp(kind, t) == V(kind, IF kind = "num" THEN 1000 * t ELSE t)

\* old = now - timedelta(hours=1)
SeenAnHourAgo == Seen - 3600

\* The two devices of test_correlate_no_overlap
WifiOld(kind) ==
    Device("11:22:33:44:55:66", Stamp(kind, SeenAnHourAgo), Stamp(kind, SeenAnHourAgo),
           Absent, "OldNetwork", "")
BtNew(kind) ==
    Device("77:88:99:AA:BB:CC", Stamp(kind, Seen), Stamp(kind, Seen), Absent,
           "NewDevice", "")

\* Records stored under the empty key
WifiNoId == Device("", V("iso", Seen), V("iso", Seen), Absent, "HomeNet", "Samsung")
BtNoId == Device("", V("iso", Seen), V("iso", Seen), Absent, "Galaxy", "Samsung")

\* The two devices of Example 2: the identifiers of WifiA and BtA, first seen
\* 45 s apart, each at a single instant, without manufacturer and name
SeenLater == Seen + 45
WifiLone == Device(WifiA.mac, V("iso", Seen), V("iso", Seen), Absent, "", "")
BtLate == Device(BtA.mac, V("iso", SeenLater), V("iso", SeenLater), Absent, "", "")

\* Two devices of one manufacturer, first seen 1 s apart, 17 dBm apart:
\* 0.5 * (1 - 1/30) + 0.2 + 0.1 * (1 - 17/20) = 0.69833...
SeenNext == Seen + 1
WifiNear == Device("11:22:33:44:55:66", V("iso", Seen), V("iso", Seen), V("num", 0 - 60),
                   "", "Intel")
BtNear == Device("77:88:99:AA:BB:CC", V("iso", SeenNext), V("iso", SeenNext),
                 V("num", 0 - 43), "", "Intel")

EngineWifi == {<<WifiOld(kind)>> : kind \in Encodings}
                \cup {<<WifiNoId>>, <<WifiA>>, <<WifiLone>>, <<WifiNear>>}
EngineBt == {<<BtNew(kind)>> : kind \in Encodings}
              \cup {<<BtNoId>>, <<BtA>>, <<BtLate>>, <<BtNear>>}

\* min_confidence of the test, the default, and 0.0 to see every score
EngineMinConfidences == {Conf(0), Conf(DefaultMinConfidence), Conf(60)}

\* get_correlations(wifi_devices, bt_devices, min_confidence, include_historical)
GetCorrelations ==
    /\ Idle
    /\ \E wifi_devices \in EngineWifi, bt_devices \in EngineBt,
          minc \in EngineMinConfidences, include_historical \in BOOLEAN :
         \E r \in Calls(wifi_devices, bt_devices, minc, include_historical) :
           /\ Reconcile(r)
           /\ call' = [NoCall EXCEPT !.op = "engine"]
           /\ outcome' = IF r.raised THEN "error" ELSE "ok"
           /\ results' = r.results

NextEngine ==
    \/ Tick
    \/ GetCorrelations
    \/ Respond

SpecEngine == Init /\ [][NextEngine]_vars

-----------------------------------------------------------------------------
(* The normalizer on its own: _to_observation applied to one raw record *)

\* What a first_seen / last_seen field can hold
TimestampValues ==
    {Absent, V("text", 0), V("empty", 0), V("num", 0)}
      \cup {Stamp(kind, t) : kind \in {"iso", "isoz", "num", "dt"}, t \in {Seen, SeenEarlier}}

\* What an rssi field can hold
RssiValues == {Absent, V("num", 0 - 60), V("text", 0), V("num", 0)}

\* What the legacy aliases of rssi can hold
PowerValues == {Absent, V("num", 0 - 70)}
SignalValues == {Absent, V("num", 0)}

\* A raw record with the snake_case and the camelCase first-seen key
RawRecord(mac, first_seen, firstSeen, last_seen, rssi) ==
    [Device(mac, first_seen, last_seen, rssi, "HomeNet", "Apple") EXCEPT
        !.firstSeen = firstSeen]

\* The record _to_observation is about to read, at any instant of the clock
InitNorm ==
    /\ store = <<>>
    /\ now \in 0..MaxClock
    /\ min_confidence = Conf(DefaultMinConfidence)
    /\ call = NoCall
    /\ outcome = "none"
    /\ results = <<>>
    /\ pass = NoLocals
    /\ ledger = {}
    /\ sc = NoScore
    /\ writers = NoWriters
    /\ db_lock = NoConn
    /\ threads = NoThreads
    /\ gps = NoGps
    /\ norm \in {[phase |-> "raw", mac |-> WifiA.mac,
                  data |-> [RawRecord(WifiA.mac, first_seen, firstSeen, last_seen, rssi)
                               EXCEPT !.power = power, !.signal = signal],
                  obs |-> NoObservation] :
                   first_seen \in TimestampValues,
                   firstSeen \in {Absent, V("iso", SeenEarlier)},
                   last_seen \in TimestampValues,
                   rssi \in RssiValues,
                   power \in PowerValues,
                   signal \in SignalValues}

\* self._to_observation(mac, data, device_type)
Normalize ==
    /\ norm.phase = "raw"
    /\ norm' = [norm EXCEPT !.phase = "normalized",
                            !.obs = ToObservation(norm.mac, norm.data, now)]
    /\ UNCHANGED <<store, now, min_confidence, call, outcome, results, pass, ledger, sc,
                   writers, db_lock, threads, gps>>

NextNorm == Normalize

SpecNorm == InitNorm /\ [][NextNorm]_vars

-----------------------------------------------------------------------------
(* GPSDClient: start, stop and the read loop of its background thread.     *)
(*   running  : self._running                                              *)
(*   socket   : self._socket, "none" or "open"                             *)
(*   thread   : self._thread: "none", or a thread whose loop is "alive"    *)
(*              or has "ended"                                             *)
(*   ended    : how the read loop of the last connection left: "no",       *)
(*              "closed" (recv returned no data), "error" (recv raised),   *)
(*              "stopped" (the loop condition failed)                      *)
(*   error    : self._error: "none", "connect", "closed", "read"           *)
(*   fix      : self._position is set                                      *)
(*   connects : the connections opened so far                              *)
(*   messages : the gpsd messages processed so far                         *)
(*   op, returned : the step taken last and what start() returned          *)

\* GPSDClient(host, port)
NewClient ==
    [phase |-> "client", running |-> FALSE, socket |-> "none", thread |-> "none",
     ended |-> "no", error |-> "none", fix |-> FALSE, connects |-> 0, messages |-> 0,
     op |-> "init", returned |-> FALSE]

InitGps ==
    /\ store = <<>>
    /\ now = 0
    /\ min_confidence = Conf(DefaultMinConfidence)
    /\ call = NoCall
    /\ outcome = "none"
    /\ results = <<>>
    /\ pass = NoLocals
    /\ ledger = {}
    /\ sc = NoScore
    /\ writers = NoWriters
    /\ db_lock = NoConn
    /\ threads = NoThreads
    /\ norm = NoNorm
    /\ gps = NewClient

\* start(): returns True at once when _running is set; otherwise connects,
\* sets _running and starts the thread, or records the error and returns False
Start ==
    /\ gps.phase = "client"
    /\ \E connected \in BOOLEAN :
         /\ ~gps.running /\ connected => gps.connects < MaxConnects
         /\ gps' = IF gps.running
                   THEN [gps EXCEPT !.op = "start", !.returned = TRUE]
                   ELSE IF connected
                   THEN [gps EXCEPT !.socket = "open", !.running = TRUE,
                                    !.error = "none", !.thread = "alive",
                                    !.ended = "no", !.connects = @ + 1,
                                    !.op = "start", !.returned = TRUE]
                   ELSE [gps EXCEPT !.error = "connect", !.socket = "none",
                                    !.op = "start", !.returned = FALSE]
    /\ UNCHANGED <<store, now, min_confidence, call, outcome, results, pass, ledger, sc,
                   writers, db_lock, threads, norm>>

\* stop(): clears _running, closes the socket and joins the thread, whose
\* loop leaves at its condition or at a recv that raises on the closed
\* socket (the join waits 2 s, a recv at most 1 s)
Stop ==
    /\ gps.phase = "client"
    /\ \E left \in {"stopped", "error"} :
         gps' = IF gps.thread = "alive"
                THEN [gps EXCEPT !.running = FALSE, !.socket = "none",
                                 !.thread = "none", !.ended = left,
                                 !.error = IF left = "error" THEN "read" ELSE @,
                                 !.op = "stop"]
                ELSE [gps EXCEPT !.running = FALSE, !.socket = "none",
                                 !.thread = "none", !.op = "stop"]
    /\ UNCHANGED <<store, now, min_confidence, call, outcome, results, pass, ledger, sc,
                   writers, db_lock, threads, norm>>

\* One iteration of _read_loop: a TPV message with a fix, another message, a
\* timeout, no data (gpsd closed the connection) or a recv that raises.
\* The last two leave the loop with break; neither touches _running.
ReadLoop ==
    /\ gps.phase = "client"
    /\ gps.thread = "alive"
    /\ gps.running /\ gps.socket = "open"
    /\ \E received \in {"tpv", "other", "timeout", "closed", "error"} :
         /\ received \in {"tpv", "other"} => gps.messages < MaxMessages
         /\ gps' = CASE received = "tpv" ->
                          [gps EXCEPT !.fix = TRUE, !.error = "none",
                                      !.messages = @ + 1, !.op = "loop"]
                     [] received = "other" ->
                          [gps EXCEPT !.messages = @ + 1, !.op = "loop"]
                     [] received = "timeout" ->
                          [gps EXCEPT !.op = "loop"]
                     [] received = "closed" ->
                          [gps EXCEPT !.error = "closed", !.thread = "ended",
                                      !.ended = "closed", !.op = "loop"]
                     [] received = "error" ->
                          [gps EXCEPT !.error = "read", !.thread = "ended",
                                      !.ended = "error", !.op = "loop"]
    /\ UNCHANGED <<store, now, min_confidence, call, outcome, results, pass, ledger, sc,
                   writers, db_lock, threads, norm>>

NextGps ==
    \/ Start
    \/ Stop
    \/ ReadLoop

SpecGps == InitGps /\ [][NextGps]_vars

-----------------------------------------------------------------------------
(* Properties of the reconciler and of the engine, over the last call *)

SamePair(x, y) == x.wifi_mac = y.wifi_mac /\ x.bt_mac = y.bt_mac

\* How many entries of the list s are for the pair of x
Entries(s, x) == Cardinality({i \in 1..Len(s) : SamePair(s[i], x)})

\* A get_correlations call has returned a list
Returned == pass.called /\ ~pass.raised

\* C1: when get_correlations merges historical rows, no pair is twice in the
\* result, and a pair that has both a live candidate and a stored row has one
\* entry in the result, which is the live candidate (its confidence, reason and
\* names), not the 'historical correlation' entry.
C1_LiveWins ==
    Returned /\ pass.include_historical =>
        /\ \A i \in 1..Len(pass.results) : Entries(pass.results, pass.results[i]) = 1
        /\ \A i \in 1..Len(pass.live) :
             Entries(store, pass.live[i]) > 0 =>
                 /\ Entries(pass.results, pass.live[i]) = 1
                 /\ \E j \in 1..Len(pass.results) : pass.results[j] = pass.live[i]

\* A merge that met a pair in the live list and among the rows it read
C1_Witness ==
    /\ Returned /\ pass.include_historical /\ ~pass.db_error
    /\ \E i \in 1..Len(pass.live), k \in 1..Len(pass.historical) :
         /\ SamePair(pass.live[i], pass.historical[k])
         /\ pass.live[i].reason # HistoricalReason
    /\ \E k \in 1..Len(pass.historical) : Entries(pass.live, pass.historical[k]) = 0

\* The entries of s whose confidence is c, in the order of s
OfConfidence(s, c) == SelectSeq(s, LAMBDA x : x.confidence = c)

\* out is inp sorted by confidence descending with a stable sort
StableSorted(out, inp) ==
    /\ Len(out) = Len(inp)
    /\ IsSortedDesc(out)
    /\ \A i \in 1..Len(inp) :
         OfConfidence(out, inp[i].confidence) = OfConfidence(inp, inp[i].confidence)

\* C5: the list correlate returns and the list get_correlations returns are
\* sorted by confidence descending, and entries of equal confidence keep the
\* order they had before the sort (in the pass, and in the merged list).
C5_SortedStable ==
    Returned =>
        /\ StableSorted(pass.live, pass.appended)
        /\ StableSorted(pass.results, pass.merged)
        /\ call.op = "list" => results = pass.results

\* The sort of the pass had work to do and a tie to keep in order, and the
\* list went through the merge with the rows of the store
C5_Witness ==
    /\ Returned
    /\ pass.live # pass.appended
    /\ pass.historical # <<>>
    /\ \E i, j \in 1..Len(pass.appended) :
         i < j /\ pass.appended[i].confidence = pass.appended[j].confidence

\* The pair (w, b) normalizes and scores at least minc under the global
\* configuration
Qualifies(w, b, minc) ==
    /\ ToObservation(w.mac, w, now).ok
    /\ ToObservation(b.mac, b, now).ok
    /\ ~CalculateConfidence(ToObservation(w.mac, w, now), ToObservation(b.mac, b, now),
                            time_window, rssi_threshold).raised
    /\ CalculateConfidence(ToObservation(w.mac, w, now), ToObservation(b.mac, b, now),
                           time_window, rssi_threshold).value >= minc

PairOf(w, b) == [wifi_mac |-> w.mac, bt_mac |-> b.mac]

\* C6: the list correlate returns has one candidate for each pair of the
\* cross-product whose two records normalize and whose confidence is at least
\* min_confidence, and no candidate for any other pair.
C6_ExactlyQualifying ==
    Returned =>
        /\ \A i \in 1..Len(pass.wifi_devices), j \in 1..Len(pass.bt_devices) :
             Entries(pass.live, PairOf(pass.wifi_devices[i], pass.bt_devices[j]))
               = IF Qualifies(pass.wifi_devices[i], pass.bt_devices[j], pass.min_confidence)
                 THEN 1 ELSE 0
        /\ \A k \in 1..Len(pass.live) :
             \E i \in 1..Len(pass.wifi_devices), j \in 1..Len(pass.bt_devices) :
                 SamePair(pass.live[k], PairOf(pass.wifi_devices[i], pass.bt_devices[j]))

\* A pass that kept a pair at exactly min_confidence, dropped a pair below it
\* and skipped a record that does not normalize
C6_Witness ==
    /\ Returned
    /\ \E k \in 1..Len(pass.live) : pass.live[k].confidence = pass.min_confidence
    /\ \E i \in 1..Len(pass.wifi_devices), j \in 1..Len(pass.bt_devices) :
         /\ ToObservation(pass.wifi_devices[i].mac, pass.wifi_devices[i], now).ok
         /\ ~Qualifies(pass.wifi_devices[i], pass.bt_devices[j], pass.min_confidence)
    /\ \E i \in 1..Len(pass.wifi_devices) :
         ~ToObservation(pass.wifi_devices[i].mac, pass.wifi_devices[i], now).ok

\* The confidence the scorer gives the pair of x in the last pass, unrounded
PassScore(x) ==
    CalculateConfidence(
        ToObservation(x.wifi_mac, Get(pass.wifi_devices, x.wifi_mac), now),
        ToObservation(x.bt_mac, Get(pass.bt_devices, x.bt_mac), now),
        time_window, rssi_threshold).value

\* The upserts a pass requests are those of its retained pairs that score 0.7
\* or more
C7_Requests ==
    pass.called =>
        /\ \A k \in 1..Len(pass.appended) :
             Entries(pass.requests, pass.appended[k])
               = IF PassScore(pass.appended[k]) >= Conf(PersistThreshold) THEN 1 ELSE 0
        /\ \A k \in 1..Len(pass.requests) :
             /\ Entries(pass.appended, pass.requests[k]) = 1
             /\ pass.requests[k].confidence = PassScore(pass.requests[k])

C7_Stored == \A i \in 1..Len(store) : store[i].confidence >= Conf(PersistThreshold)

\* A step adds or changes a row only for a pair the pass asked to persist
C7_Step ==
    /\ Len(store') >= Len(store)
    /\ \A i \in 1..Len(store') :
         i > Len(store) \/ store'[i] # store[i] =>
             \E k \in 1..Len(pass'.requests) :
                 /\ SamePair(pass'.requests[k], store'[i])
                 /\ ~pass'.requests[k].failed
                 /\ pass'.requests[k].confidence >= Conf(PersistThreshold)

\* C7: a pass requests an upsert for every retained pair whose confidence is
\* 0.7 or more and for no other pair; a pair below 0.7, or one that is not
\* retained, leaves the store as it is; so with the engine as the only writer
\* every stored row has confidence 0.7 or more.
C7_PersistHigh == [](C7_Requests /\ C7_Stored) /\ [][C7_Step]_vars

\* A pass that persisted one pair and left alone a pair that scores 0.7 or
\* more but is not retained
C7_Witness ==
    /\ pass.called
    /\ \E k \in 1..Len(pass.requests) : ~pass.requests[k].failed
    /\ \E i \in 1..Len(pass.wifi_devices), j \in 1..Len(pass.bt_devices) :
         /\ Qualifies(pass.wifi_devices[i], pass.bt_devices[j], Conf(PersistThreshold))
         /\ Entries(pass.appended, PairOf(pass.wifi_devices[i], pass.bt_devices[j])) = 0
         /\ Entries(store, PairOf(pass.wifi_devices[i], pass.bt_devices[j])) = 0

\* The pass as it goes when no upsert fails
Unfailing == Live(pass.wifi_devices, pass.bt_devices, pass.min_confidence, now, {})

\* C8: when the upsert of a pair fails during a pass, the pass goes on as if it
\* had not: it raises only if it raises without the failure, the candidate of
\* the pair stays in the returned list, and the pairs after it are scored,
\* returned and persisted all the same.
C8_FailureSwallowed ==
    pass.called /\ (\E k \in 1..Len(pass.requests) : pass.requests[k].failed) =>
        /\ pass.raised = Unfailing.raised
        /\ pass.appended = Unfailing.appended
        /\ Len(pass.requests) = Len(Unfailing.requests)
        /\ \A k \in 1..Len(pass.requests) :
             /\ [pass.requests[k] EXCEPT !.failed = FALSE] = Unfailing.requests[k]
             /\ Entries(pass.appended, pass.requests[k]) = 1
             /\ ~pass.raised => /\ Entries(pass.live, pass.requests[k]) = 1
                                /\ Entries(pass.results, pass.requests[k]) = 1
             /\ ~pass.requests[k].failed =>
                  \E i \in 1..Len(store) :
                      /\ SamePair(store[i], pass.requests[k])
                      /\ store[i].confidence = pass.requests[k].confidence
                      /\ store[i].last_seen = now

\* An upsert failed, and a later pair of the same pass was returned and
\* persisted
C8_Witness ==
    /\ Returned
    /\ \E k, m \in 1..Len(pass.requests) :
         /\ k < m
         /\ pass.requests[k].failed
         /\ ~pass.requests[m].failed
         /\ Entries(results, pass.requests[k]) = 1
         /\ Entries(results, pass.requests[m]) = 1
         /\ Entries(store, pass.requests[k]) = 0

\* C9: when the historical read fails, get_correlations still returns: the
\* live candidates of the pass, sorted, and no historical entry.
C9_ReadFailureLiveOnly ==
    pass.called /\ pass.db_error =>
        /\ outcome \in {"ok", "no_correlation"}
        /\ pass.results = pass.live
        /\ \A k \in 1..Len(pass.results) :
             /\ pass.results[k].reason # HistoricalReason
             /\ pass.results[k].first_seen = NoTime
        /\ call.op = "list" => results = pass.live

\* The read failed while the store held a pair the pass had no candidate for
C9_Witness ==
    /\ pass.called /\ pass.db_error
    /\ call.op = "list"
    /\ results # <<>>
    /\ \E i \in 1..Len(store) :
         /\ store[i].confidence >= pass.min_confidence
         /\ Entries(pass.live, store[i]) = 0

\* C10: AnalyzePair of two devices found in the caches returns the candidate
\* of the requested pair (or no correlation), never one of another pair.
C10_OwnPair ==
    call.op = "analyze" /\ outcome = "ok" =>
        /\ Len(results) = 1
        /\ results[1].wifi_mac = call.wifi_mac
        /\ results[1].bt_mac = call.bt_mac

-----------------------------------------------------------------------------
(* Properties of the store *)

\* The table is what the committed upserts amount to: one row for each pair
\* ever upserted, with the confidence and the time of the latest upsert and
\* the time of the first
StoreIsLedger ==
    /\ Len(store) = Cardinality(ledger)
    /\ \A e \in ledger :
         /\ Entries(store, e) = 1
         /\ \A i \in 1..Len(store) :
              SamePair(store[i], e) =>
                  /\ store[i].confidence = e.confidence
                  /\ store[i].last_seen = e.at
                  /\ store[i].first_seen = e.first_at

\* C2: after any sequence of add_correlation calls the table holds one row for
\* each ordered pair ever upserted, (A, B) and (B, A) apart; the row has the
\* confidence and last_seen of the latest upsert of the pair and the first_seen
\* of its first.
C2_OneRowPerPair ==
    /\ StoreIsLedger
    /\ call.op = "add" /\ outcome = "ok" =>
         \E i \in 1..Len(store) : SamePair(store[i], call) /\ store[i].last_seen = now

\* Both orders of a pair are stored and the last call updated a row that an
\* earlier call had inserted, to another confidence
C2_Witness ==
    /\ call.op = "add" /\ outcome = "ok"
    /\ Len(store) = 2
    /\ \E i \in 1..Len(store) :
         /\ SamePair(store[i], call)
         /\ store[i].first_seen < store[i].last_seen
         /\ store[i].last_seen = now
    /\ \E i, j \in 1..Len(store) :
         /\ store[i].wifi_mac = store[j].bt_mac
         /\ store[i].bt_mac = store[j].wifi_mac
         /\ store[i].confidence # store[j].confidence

\* C3: when passes upsert the same pair concurrently, every upsert is atomic in
\* every interleaving: the table has one row for the pair, its confidence and
\* last_seen are those of one upsert, the last one committed, its first_seen is
\* that of the first insert, and at no moment are there two rows for the pair
\* or a row that mixes two upserts.
C3_AtomicUpserts ==
    /\ StoreIsLedger
    /\ \A i \in 1..Len(store) : Entries(store, store[i]) = 1
    /\ \A c \in DOMAIN writers :
         writers[c].pc = "executed" =>
             /\ db_lock = {c}
             /\ \A i \in 1..Len(writers[c].txn) :
                  Entries(writers[c].txn, writers[c].txn[i]) = 1

\* One connection is about to commit another confidence for a pair that is
\* stored, while a second connection was turned away with the same pair
C3_Witness ==
    \E c, d \in DOMAIN writers :
        /\ c # d
        /\ writers[c].pc = "executed"
        /\ writers[d].pc = "raised"
        /\ SamePair(writers[c], writers[d])
        /\ \E i \in 1..Len(store) :
             /\ SamePair(store[i], writers[c])
             /\ store[i].confidence # writers[c].confidence
             /\ store[i].first_seen < writers[c].ts

-----------------------------------------------------------------------------
(* Properties of the scorer *)

\* C4: for every pair of normalized observations and every configuration, the
\* confidence the scorer returns is at least 0.0 and at most 1.0.
C4_ConfidenceInUnitInterval ==
    sc.phase = "scored" /\ ~sc.raised =>
        /\ sc.value >= 0
        /\ sc.value <= ConfUnit(sc.W, sc.R)

\* A pair that earns every component in full: the sum is 1.0
C4_Witness ==
    /\ sc.phase = "scored" /\ ~sc.raised
    /\ sc.value = ConfUnit(sc.W, sc.R)
    /\ sc.W > 0 /\ sc.R > 0
    /\ sc.wifi.has_rssi /\ sc.bt.has_rssi

-----------------------------------------------------------------------------
(* The historical part of get_correlations and the calls without devices *)

\* The entry get_correlations makes of the stored row h
HistoricalEntry(h) ==
    Candidate(h.wifi_mac, "", h.bt_mac, "", h.confidence, HistoricalReason,
              h.first_seen, h.last_seen)

\* C12: with include_historical, a call whose read succeeds returns, for every
\* stored row of confidence at least min_confidence whose pair has no live
\* candidate, one entry with the row's identifiers, confidence, first_seen and
\* last_seen and the reason 'historical correlation', and no historical entry
\* for a row below min_confidence; without include_historical the store is not
\* read and the result is the live list.
C12_HistoricalEntries ==
    /\ Returned /\ pass.include_historical /\ ~pass.db_error =>
         \A k \in 1..Len(store) :
            /\ store[k].confidence >= pass.min_confidence
                 /\ Entries(pass.live, store[k]) = 0 =>
                    /\ Entries(pass.results, store[k]) = 1
                    /\ \E i \in 1..Len(pass.results) :
                         pass.results[i] = HistoricalEntry(store[k])
            /\ store[k].confidence < pass.min_confidence =>
                 \A i \in 1..Len(pass.results) :
                    SamePair(pass.results[i], store[k]) =>
                        pass.results[i].reason # HistoricalReason
    /\ Returned /\ ~pass.include_historical =>
         /\ pass.historical = <<>>
         /\ pass.results = pass.live
         /\ \A i \in 1..Len(pass.results) : pass.results[i].reason # HistoricalReason

\* A call that merged a stored row of a pair without live candidate while the
\* store held another row below its min_confidence
C12_Witness ==
    /\ Returned /\ pass.include_historical /\ ~pass.db_error
    /\ \E k \in 1..Len(store) :
         /\ store[k].confidence >= pass.min_confidence
         /\ Entries(pass.live, store[k]) = 0
         /\ Entries(pass.results, store[k]) = 1
    /\ \E k \in 1..Len(store) : store[k].confidence < pass.min_confidence

\* One of the two maps of the last call is empty
EmptyMap(p) == p.called /\ (p.wifi_devices = <<>> \/ p.bt_devices = <<>>)

\* The call of this step has an empty map
EmptyCall == ~pass.called /\ EmptyMap(pass')

\* C13 (state): for a call with an empty map, correlate would return the empty
\* list, the call has no live candidate and no upsert request, and its result
\* is the list of the historical entries with include_historical and empty
\* without.
C13_NoLive ==
    EmptyMap(pass) =>
        /\ Correlate(pass.wifi_devices, pass.bt_devices, pass.min_confidence,
                     time_window, rssi_threshold, now, {}).correlations = <<>>
        /\ ~pass.raised
        /\ pass.appended = <<>> /\ pass.live = <<>> /\ pass.requests = <<>>
        /\ pass.results = [i \in 1..Len(pass.historical) |->
                              HistoricalEntry(pass.historical[i])]
        /\ ~pass.include_historical => pass.results = <<>>
        /\ call.op = "list" => results = pass.results /\ outcome = "ok"

\* C13 (step): such a call does not run the engine: it leaves the store and
\* the min_confidence of the correlator as they were.
C13_Step == EmptyCall => store' = store /\ ledger' = ledger /\ min_confidence' = min_confidence

\* C13: if either observation map is empty, no live candidate is produced, the
\* engine is not run and no upsert is requested; the result is the historical
\* candidates with include_historical and empty otherwise.
C13_EmptyMapNoEngine == []C13_NoLive /\ [][C13_Step]_vars

\* A call with Bluetooth devices and no WiFi device, made with a min_confidence
\* that is not the correlator's, returned the rows of the store
C13_Witness ==
    /\ EmptyMap(pass)
    /\ pass.bt_devices # <<>>
    /\ pass.min_confidence # min_confidence
    /\ pass.include_historical
    /\ pass.results # <<>>

-----------------------------------------------------------------------------
(* The analysis route: found, not found, no correlation *)

\* The analysis request named two identifiers and looked them up
LookedUp == call.op = "analyze" /\ outcome \notin {"none", "bad_request"}

\* Both requested devices are in the caches
InCaches ==
    /\ HasKey(call.wifi_networks, call.wifi_mac) \/ HasKey(call.wifi_clients, call.wifi_mac)
    /\ HasKey(call.bt_devices, call.bt_mac)

-----------------------------------------------------------------------------
(* Records the normalizer rejects *)

\* The records of a dict that normalize
Normalizable(devices) == SelectSeq(devices, LAMBDA d : ToObservation(d.mac, d, now).ok)

\* The pairs whose upsert raised in the last call
Failed(requests) == {<<requests[i].wifi_mac, requests[i].bt_mac>> :
                        i \in {k \in 1..Len(requests) : requests[k].failed}}

\* The engine part of the call p went as the pass clean
SamePass(p, clean) ==
    /\ p.raised = clean.raised
    /\ p.appended = clean.appended
    /\ p.live = clean.correlations
    /\ p.requests = clean.requests

\* C15: a record that fails normalization is skipped and the pass goes on: the
\* pass is the pass over the records that normalize, so every pair of those is
\* scored and, at min_confidence or above, returned.
C15_MalformedSkipped ==
    pass.called =>
        /\ SamePass(pass, Live(Normalizable(pass.wifi_devices),
                               Normalizable(pass.bt_devices),
                               pass.min_confidence, now, Failed(pass.requests)))
        /\ Returned =>
             \A i \in 1..Len(pass.wifi_devices), j \in 1..Len(pass.bt_devices) :
                Qualifies(pass.wifi_devices[i], pass.bt_devices[j], pass.min_confidence)
                    => Entries(pass.live, PairOf(pass.wifi_devices[i], pass.bt_devices[j])) = 1

\* A pass met a record that does not normalize and returned a pair of a record
\* that comes after it
C15_Witness ==
    /\ Returned
    /\ \E i, k \in 1..Len(pass.wifi_devices), j \in 1..Len(pass.bt_devices) :
         /\ i < k
         /\ ~ToObservation(pass.wifi_devices[i].mac, pass.wifi_devices[i], now).ok
         /\ Entries(pass.live, PairOf(pass.wifi_devices[k], pass.bt_devices[j])) = 1

-----------------------------------------------------------------------------
(* Concurrent get_correlations calls *)

\* C11: whatever the interleaving of concurrent get_correlations calls, a call
\* that has returned has a live candidate for exactly the pairs whose
\* confidence is at least the min_confidence passed to that call.
C11_OwnMinConfidence ==
    \A t \in DOMAIN threads :
        threads[t].pc = "done" /\ ~threads[t].out.raised =>
            \A i \in 1..Len(RaceWifi), j \in 1..Len(RaceBt) :
                Entries(threads[t].out.live, PairOf(RaceWifi[i], RaceBt[j]))
                  = IF Qualifies(RaceWifi[i], RaceBt[j], threads[t].min_confidence)
                    THEN 1 ELSE 0

-----------------------------------------------------------------------------
(* The timing component of the score *)

\* The components of the score that do not depend on the times
NonTiming(wifi, bt, W, R) ==
    ManufacturerScore(wifi, bt, W, R) + OuiScore(wifi, bt, W, R)
      + RssiScore(wifi, bt, W, R) + NameScore(wifi, bt, W, R)

\* What the times contribute to the confidence of the pair
TimingPart(wifi, bt, W, R) ==
    CalculateConfidence(wifi, bt, W, R).value - NonTiming(wifi, bt, W, R)

\* The intervals [first_seen, last_seen] of the two have an instant in common
Overlap(wifi, bt) ==
    \E t \in {wifi.first_seen, bt.first_seen} :
        /\ wifi.first_seen <= t /\ t <= wifi.last_seen
        /\ bt.first_seen <= t /\ t <= bt.last_seen

\* The Bluetooth observation of the evaluation, first seen at another instant
SeenAt(bt, t) == [bt EXCEPT !.first_seen = t, !.last_seen = t]

\* The evaluation has returned a confidence
Scored == sc.phase \in {"scored", "explained"} /\ ~sc.raised

\* C19: with dt = |wifi.first_seen - bt.first_seen|, the timing component is
\* 0.5 * (1 - dt / window) for dt <= window, which is 0.5 at dt = 0, 0 at the
\* window edge and does not increase with dt; for dt > window it is 0.25 if
\* the two [first_seen, last_seen] intervals overlap and 0 otherwise.
C19_TimingComponent ==
    Scored =>
        /\ TimeDiff(sc.wifi, sc.bt) <= sc.W =>
             /\ 2 * sc.W * (sc.value - NonTiming(sc.wifi, sc.bt, sc.W, sc.R))
                  = (sc.W - TimeDiff(sc.wifi, sc.bt)) * ConfUnit(sc.W, sc.R)
             /\ TimeDiff(sc.wifi, sc.bt) = 0 =>
                  2 * (sc.value - NonTiming(sc.wifi, sc.bt, sc.W, sc.R))
                    = ConfUnit(sc.W, sc.R)
             /\ TimeDiff(sc.wifi, sc.bt) = sc.W =>
                  sc.value = NonTiming(sc.wifi, sc.bt, sc.W, sc.R)
             /\ \A t \in {0, 10, 30, 45} :
                  /\ TimeDiff(sc.wifi, sc.bt) <= TimeDiff(sc.wifi, SeenAt(sc.bt, t))
                  /\ TimeDiff(sc.wifi, SeenAt(sc.bt, t)) <= sc.W
                  => TimingPart(sc.wifi, SeenAt(sc.bt, t), sc.W, sc.R)
                       <= sc.value - NonTiming(sc.wifi, sc.bt, sc.W, sc.R)
        /\ TimeDiff(sc.wifi, sc.bt) > sc.W =>
             4 * (sc.value - NonTiming(sc.wifi, sc.bt, sc.W, sc.R))
               = IF Overlap(sc.wifi, sc.bt) THEN ConfUnit(sc.W, sc.R) ELSE 0

\* A pair scored at the very edge of the window while the WiFi device was
\* still present: the timing component is 0, not the overlap credit
C19_Witness ==
    /\ Scored
    /\ sc.W > 0
    /\ TimeDiff(sc.wifi, sc.bt) = sc.W
    /\ Overlap(sc.wifi, sc.bt)
    /\ sc.value = NonTiming(sc.wifi, sc.bt, sc.W, sc.R)

-----------------------------------------------------------------------------
(* Devices whose supplied times are far apart *)

\* The field holds an instant, in one of the encodings
HasTime(v) == v.k \in {"iso", "isoz", "num", "dt"}

\* The instant the field was given
Supplied(v) == IF v.k = "num" THEN v.n \div 1000 ELSE v.n

\* The supplied first-seen times are more than the window apart and the
\* supplied [first-seen, last-seen] intervals have no instant in common
FarApart(w, b) ==
    /\ HasTime(w.first_seen) /\ HasTime(w.last_seen)
    /\ HasTime(b.first_seen) /\ HasTime(b.last_seen)
    /\ Abs(Supplied(w.first_seen) - Supplied(b.first_seen)) > time_window
    /\ \/ Supplied(w.first_seen) > Supplied(b.last_seen)
       \/ Supplied(b.first_seen) > Supplied(w.last_seen)

\* The call p gave the pair of the observations no timing credit
NoTimingCredit(p, wifi_obs, bt_obs) ==
    /\ \A k \in 1..Len(p.live) :
         p.live[k].wifi_mac = wifi_obs.mac /\ p.live[k].bt_mac = bt_obs.mac =>
            p.live[k].confidence
              = Round2(NonTiming(wifi_obs, bt_obs, time_window, rssi_threshold),
                       time_window, rssi_threshold)
    /\ /\ p.min_confidence = Conf(60)
       /\ ManufacturerScore(wifi_obs, bt_obs, time_window, rssi_threshold) = 0
       /\ OuiScore(wifi_obs, bt_obs, time_window, rssi_threshold) = 0
       => \A k \in 1..Len(p.live) :
             ~(p.live[k].wifi_mac = wifi_obs.mac /\ p.live[k].bt_mac = bt_obs.mac)

\* C20: for devices whose supplied times lie more than the window apart and do
\* not overlap, in whatever encoding they are supplied, the confidence of the
\* pair is the sum of its non-timing components, and without OUI or
\* manufacturer match the pair is not reported at min_confidence 0.6.
C20_NoTimingCredit ==
    Returned =>
        \A i \in 1..Len(pass.wifi_devices), j \in 1..Len(pass.bt_devices) :
            /\ FarApart(pass.wifi_devices[i], pass.bt_devices[j])
            /\ ToObservation(pass.wifi_devices[i].mac, pass.wifi_devices[i], now).ok
            /\ ToObservation(pass.bt_devices[j].mac, pass.bt_devices[j], now).ok
            => NoTimingCredit(pass,
                              ToObservation(pass.wifi_devices[i].mac, pass.wifi_devices[i], now),
                              ToObservation(pass.bt_devices[j].mac, pass.bt_devices[j], now))

-----------------------------------------------------------------------------
(* Records with an empty identifier *)

NoEmptyIdentifier(s) == \A i \in 1..Len(s) : s[i].wifi_mac # "" /\ s[i].bt_mac # ""

\* C16: a record whose identifier is empty is skipped: no pair with an empty
\* wifi or bluetooth identifier is among the candidates of a pass, among its
\* upsert requests, in the returned list or in the store.
C16_NoEmptyIdentifier ==
    /\ NoEmptyIdentifier(pass.appended)
    /\ NoEmptyIdentifier(pass.requests)
    /\ NoEmptyIdentifier(pass.results)
    /\ NoEmptyIdentifier(store)

-----------------------------------------------------------------------------
(* The timestamps of a normalized record *)

\* The value the normalizer reads for first-seen and for last-seen
RawFirst == Or(norm.data.first_seen, norm.data.firstSeen)
RawLast == Or(norm.data.last_seen, norm.data.lastSeen)

\* The field is absent, or a string that is not a timestamp
AbsentOrUnparseable(v) == v.k \in {"absent", "text", "empty"}

\* The record has been normalized and nothing but its timestamps can fail
TimestampsOnly ==
    /\ norm.phase = "normalized"
    /\ norm.mac # ""
    /\ ToRssi(Or(Or(norm.data.rssi, norm.data.power), norm.data.signal)).ok

\* C17: for first-seen and last-seen independently, an absent or unparseable
\* timestamp is replaced by the current instant and the observation is still
\* produced: a record with a non-empty identifier is not dropped because of
\* its timestamps.
C17_TimestampFallback ==
    TimestampsOnly =>
        /\ norm.obs.ok
        /\ AbsentOrUnparseable(RawFirst) => norm.obs.first_seen = now
        /\ AbsentOrUnparseable(RawLast) => norm.obs.last_seen = now

\* C18: every observation the normalizer produces has first_seen <= last_seen.
C18_FirstBeforeLast ==
    norm.phase = "normalized" /\ norm.obs.ok => norm.obs.first_seen <= norm.obs.last_seen

-----------------------------------------------------------------------------
(* The components of the score, one at a time *)

\* The first 8 characters of the two identifiers are equal, ignoring case
SamePrefix(wifi, bt) ==
    \A i \in 1..8 : Upper(CharAt(wifi.mac, i)) = Upper(CharAt(bt.mac, i))

\* The Bluetooth observation of the evaluation under another identifier
WithMac(bt, mac) == [bt EXCEPT !.mac = mac]

\* C21: of two pairs that differ only in the Bluetooth identifier, one whose
\* first 8 characters equal those of the WiFi identifier ignoring case and one
\* where they do not, the first has a confidence at least 0.15 above the
\* second, under the same configuration.
C21_OuiBonus ==
    Scored /\ SamePrefix(sc.wifi, sc.bt) =>
        \A mac \in {BtA.mac, BtB.mac, BtZ.mac} :
            ~SamePrefix(sc.wifi, WithMac(sc.bt, mac)) =>
                sc.value >= CalculateConfidence(sc.wifi, WithMac(sc.bt, mac), sc.W, sc.R).value
                              + Hundredths(15, sc.W, sc.R)

\* A pair whose prefixes differ in case only and whose confidence is 1.0
C21_Witness ==
    /\ Scored
    /\ sc.bt.mac = BtB.mac
    /\ SamePrefix(sc.wifi, sc.bt)
    /\ sc.wifi.mac # sc.bt.mac
    /\ Prefix(sc.wifi.mac, 8) # Prefix(sc.bt.mac, 8)
    /\ sc.value = ConfUnit(sc.W, sc.R)

-----------------------------------------------------------------------------
(* The worked examples *)

\* Example 1: AA:BB:CC:11:22:33 and AA:BB:CC:44:55:66, both 'Apple', both
\* named, first seen at the same instant, no signal strength, window 60 s
Example1 ==
    /\ sc.phase \in {"scored", "explained"}
    /\ sc.W = 60
    /\ sc.wifi.mac = "AA:BB:CC:11:22:33" /\ sc.bt.mac = "AA:BB:CC:44:55:66"
    /\ sc.wifi.manufacturer = "Apple" /\ sc.bt.manufacturer = "Apple"
    /\ sc.wifi.name # "" /\ sc.bt.name # ""
    /\ sc.wifi.first_seen = sc.bt.first_seen
    /\ ~sc.wifi.first_aware /\ ~sc.bt.first_aware
    /\ ~sc.wifi.has_rssi /\ ~sc.bt.has_rssi

Example2 ==
    /\ pass.called
    /\ pass.wifi_devices = <<WifiLone>>
    /\ pass.bt_devices = <<BtLate>>

-----------------------------------------------------------------------------
(* The reason of a candidate *)

\* The part of the reason for evidence that applies, nothing otherwise
Part(applies, text) == IF applies THEN <<text>> ELSE <<>>

\* The parts whose evidence applies to the pair, in the fixed order
Parts(wifi, bt, W, R) ==
    Part(TimeDiff(wifi, bt) <= W, "appeared within " \o ToString(TimeDiff(wifi, bt)) \o "s")
      \o Part(SamePrefix(wifi, bt), "same OUI")
      \o Part(wifi.manufacturer # "" /\ bt.manufacturer # ""
                /\ Lower(wifi.manufacturer) = Lower(bt.manufacturer),
              "same manufacturer (" \o wifi.manufacturer \o ")")
      \o Part(wifi.has_rssi /\ bt.has_rssi /\ Abs(wifi.rssi - bt.rssi) <= R,
              "similar signal strength")

\* The parts, separated by "; "
Joined(parts) ==
    IF Len(parts) = 0 THEN ""
    ELSE IF Len(parts) = 1 THEN parts[1]
    ELSE IF Len(parts) = 2 THEN parts[1] \o "; " \o parts[2]
    ELSE IF Len(parts) = 3 THEN parts[1] \o "; " \o parts[2] \o "; " \o parts[3]
    ELSE parts[1] \o "; " \o parts[2] \o "; " \o parts[3] \o "; " \o parts[4]

\* C24 (parts): the reason is made of exactly the parts whose evidence
\* applies, in the fixed order.
C24_Parts ==
    sc.phase = "explained" /\ Parts(sc.wifi, sc.bt, sc.W, sc.R) # <<>> =>
        sc.reason = Joined(Parts(sc.wifi, sc.bt, sc.W, sc.R))

\* C24 (fallback): the reason is 'timing overlap' precisely when no component
\* contributed to the confidence of the pair.
C24_Fallback ==
    sc.phase = "explained" => (sc.reason = "timing overlap" <=> sc.value = 0)

\* C24: the reason of a candidate consists of exactly the applicable parts in
\* the fixed order, and it is the fallback 'timing overlap' precisely when no
\* evidence component contributed to the confidence.
C24_Reason == C24_Parts /\ C24_Fallback

\* C24 (amended): the reason consists of exactly the applicable parts in the
\* fixed order, and it is the fallback 'timing overlap' precisely when none of
\* the four parts applies, whatever the confidence of the pair.
C24_ReasonByParts ==
    sc.phase = "explained" =>
        /\ sc.reason = IF Parts(sc.wifi, sc.bt, sc.W, sc.R) # <<>>
                       THEN Joined(Parts(sc.wifi, sc.bt, sc.W, sc.R))
                       ELSE "timing overlap"
        /\ sc.reason = "timing overlap" <=> Parts(sc.wifi, sc.bt, sc.W, sc.R) = <<>>

\* A pair with the fallback reason whose confidence is not zero, and whose
\* intervals do not even overlap
C24_Witness ==
    /\ sc.phase = "explained"
    /\ sc.reason = "timing overlap"
    /\ sc.value > 0
    /\ ~Overlap(sc.wifi, sc.bt)

\* What the manufacturers contribute to the confidence of the pair
ManufacturerPart(wifi, bt, W, R) ==
    CalculateConfidence(wifi, bt, W, R).value
      - (TimingScore(wifi, bt, W, R) + OuiScore(wifi, bt, W, R)
         + RssiScore(wifi, bt, W, R) + NameScore(wifi, bt, W, R))

\* The first n characters of a and b are the same up to the case of letters
\* (a string shorter than n matches only a string that ends with it)
AgreeUpTo(a, b, n) ==
    \A i \in 1..n :
        \/ i > Len(a) /\ i > Len(b)
        \/ i <= Len(a) /\ i <= Len(b) /\ Upper(CharAt(a, i)) = Upper(CharAt(b, i))

EqualIgnoringCase(a, b) == Len(a) = Len(b) /\ AgreeUpTo(a, b, Len(a))

BothPresent(wifi, bt) == wifi.manufacturer # "" /\ bt.manufacturer # ""

\* C25: the manufacturer component is +0.2 when both manufacturers are present
\* and equal ignoring case, otherwise +0.1 when both are present and their
\* first 5 characters are equal ignoring case, and 0 in every other case, in
\* particular whenever the manufacturer of either side is absent.
C25_ManufacturerComponent ==
    Scored =>
        ManufacturerPart(sc.wifi, sc.bt, sc.W, sc.R) =
            IF BothPresent(sc.wifi, sc.bt)
                 /\ EqualIgnoringCase(sc.wifi.manufacturer, sc.bt.manufacturer)
            THEN Hundredths(20, sc.W, sc.R)
            ELSE IF BothPresent(sc.wifi, sc.bt)
                      /\ AgreeUpTo(sc.wifi.manufacturer, sc.bt.manufacturer, 5)
                 THEN Hundredths(10, sc.W, sc.R)
                 ELSE 0

\* Manufacturers that differ only in the case of their letters have been scored
C25_Witness ==
    /\ Scored
    /\ sc.wifi.manufacturer # sc.bt.manufacturer
    /\ EqualIgnoringCase(sc.wifi.manufacturer, sc.bt.manufacturer)
    /\ ManufacturerPart(sc.wifi, sc.bt, sc.W, sc.R) = Hundredths(20, sc.W, sc.R)

\* The alias fields of the record in the order the normalizer reads them
Aliases(data) == <<data.rssi, data.power, data.signal>>

Present(v) == v # Absent

\* The first alias field that is present in the record, or Absent
FirstPresent(data) ==
    IF \E i \in 1..3 : Present(Aliases(data)[i])
    THEN Aliases(data)[CHOOSE i \in 1..3 :
                          /\ Present(Aliases(data)[i])
                          /\ \A j \in 1..(i - 1) : ~Present(Aliases(data)[j])]
    ELSE Absent

\* C26: the signal strength of a normalized observation is the integer value
\* of the first present alias field (rssi, power, signal), for every integer
\* value including 0, and it is absent only if none of the fields is present.
C26_SignalStrength ==
    norm.phase = "normalized" /\ norm.obs.ok =>
        /\ norm.obs.has_rssi <=> Present(FirstPresent(norm.data))
        /\ norm.obs.has_rssi => norm.obs.rssi = FirstPresent(norm.data).n

\* The same for records whose first present alias field is not 0
C26_NonZeroSignalStrength ==
    norm.phase = "normalized" /\ norm.obs.ok /\ FirstPresent(norm.data) # V("num", 0) =>
        /\ norm.obs.has_rssi <=> Present(FirstPresent(norm.data))
        /\ norm.obs.has_rssi => norm.obs.rssi = FirstPresent(norm.data).n

\* A record with rssi 0 was normalized to an observation without signal strength
ZeroDropped ==
    /\ norm.phase = "normalized" /\ norm.obs.ok
    /\ norm.data.rssi = V("num", 0)
    /\ ~norm.obs.has_rssi

\* A record with rssi 0 was normalized to the value of a later alias
ZeroOverridden ==
    /\ norm.phase = "normalized" /\ norm.obs.ok
    /\ norm.data.rssi = V("num", 0)
    /\ norm.obs.has_rssi /\ norm.obs.rssi = 0 - 70

\* The pass asked the store to upsert the pair of the candidate x
Upserted(x) == \E i \in 1..Len(pass.requests) : SamePair(pass.requests[i], x)

\* C27: the threshold decisions of a pass agree with the confidence it reports
\* (the value rounded to 2 decimal places): every returned live candidate has a
\* reported confidence of at least min_confidence, and it has been upserted
\* into the store exactly when its reported confidence is at least 0.70.
C27_DecisionsAgree ==
    Returned =>
        \A i \in 1..Len(pass.live) :
            /\ pass.live[i].confidence >= pass.min_confidence
            /\ Upserted(pass.live[i]) <=> pass.live[i].confidence >= Conf(PersistThreshold)

\* A live candidate reported with 0.70 that the pass did not persist
ReportedNotPersisted ==
    /\ Returned
    /\ \E i \in 1..Len(pass.live) :
          /\ pass.live[i].confidence = Conf(PersistThreshold)
          /\ ~Upserted(pass.live[i])

\* The decisions agree with the confidence before it is rounded
C27_DecisionsOnUnrounded ==
    Returned =>
        \A i \in 1..Len(pass.live) :
            /\ pass.live[i].confidence >= pass.min_confidence
            /\ Upserted(pass.live[i]) => pass.live[i].confidence >= Conf(PersistThreshold)

\* The record with identifier mac is in the map and normalizes
InMap(devices, mac) ==
    \E i \in 1..Len(devices) :
        devices[i].mac = mac /\ ToObservation(mac, devices[i], now).ok

\* Both devices of the entry x are in the current observation maps
PresentPair(x) == InMap(pass.wifi_devices, x.wifi_mac) /\ InMap(pass.bt_devices, x.bt_mac)

\* The current pass retained a candidate for the pair of x
HasLive(x) == \E i \in 1..Len(pass.live) : SamePair(pass.live[i], x)

\* C28: for a pair whose two devices are both in the current observation maps
\* and normalize, get_correlations never reports the pair with the reason
\* 'historical correlation', for every min_confidence.
C28_NeverHistorical ==
    Returned =>
        \A i \in 1..Len(pass.results) :
            PresentPair(pass.results[i]) => pass.results[i].reason # HistoricalReason

\* C28 (amended): for such a pair, an entry with the reason 'historical
\* correlation' is returned only when the current pass retained no candidate
\* for the pair (its current score is below min_confidence); it then carries
\* the persisted confidence. When the pass retained a candidate, the only
\* entry for the pair is that candidate.
C28_HistoricalOnlyBelowThreshold ==
    Returned =>
        \A i \in 1..Len(pass.results) :
            PresentPair(pass.results[i]) =>
                IF HasLive(pass.results[i])
                THEN /\ pass.results[i].reason # HistoricalReason
                     /\ \E j \in 1..Len(pass.live) : pass.live[j] = pass.results[i]
                     /\ Entries(pass.results, pass.results[i]) = 1
                ELSE /\ pass.results[i].reason = HistoricalReason
                     /\ pass.include_historical
                     /\ \E j \in 1..Len(pass.historical) :
                           /\ SamePair(pass.historical[j], pass.results[i])
                           /\ pass.historical[j].confidence = pass.results[i].confidence

\* A pair of the current maps returned with a persisted confidence
C28_Witness ==
    /\ Returned
    /\ \E i \in 1..Len(pass.results) :
          /\ PresentPair(pass.results[i])
          /\ pass.results[i].reason = HistoricalReason
          /\ pass.results[i].confidence = Conf(90)

\* All four timestamps of the pair are naive datetimes
AllNaive(wifi, bt) ==
    ~wifi.first_aware /\ ~wifi.last_aware /\ ~bt.first_aware /\ ~bt.last_aware

\* C29: for every configuration with time_window >= 0 and rssi_threshold >= 0
\* and every pair of normalizable records the scorer yields a confidence
\* without raising, also when time_window = 0 and dt = 0 and when
\* rssi_threshold = 0 and the two signal strengths are equal.
C29_NeverRaises ==
    sc.phase = "scored" /\ sc.W >= 0 /\ sc.R >= 0 /\ AllNaive(sc.wifi, sc.bt) => ~sc.raised

\* The same for a window and a threshold above zero
C29_PositiveNeverRaises ==
    sc.phase = "scored" /\ sc.W > 0 /\ sc.R > 0 /\ AllNaive(sc.wifi, sc.bt) => ~sc.raised

\* The division by a window of 0 raised for two devices first seen together
ZeroWindowRaised ==
    /\ sc.phase = "scored" /\ sc.raised
    /\ AllNaive(sc.wifi, sc.bt)
    /\ sc.W = 0 /\ sc.R > 0
    /\ TimeDiff(sc.wifi, sc.bt) = 0

\* The division by a threshold of 0 raised for two equal signal strengths
ZeroThresholdRaised ==
    /\ sc.phase = "scored" /\ sc.raised
    /\ AllNaive(sc.wifi, sc.bt)
    /\ sc.W > 0 /\ sc.R = 0
    /\ sc.wifi.has_rssi /\ sc.bt.has_rssi /\ sc.wifi.rssi = sc.bt.rssi

\* The read loop is gone: it left at a closed connection or at a read error,
\* and stop() has not been called since
LoopEnded == gps.phase = "client" /\ gps.thread = "ended"

\* C30: is_running is true only while the background read loop is alive:
\* after the read loop has ended because gpsd closed the connection or a read
\* error occurred, is_running is false.
C30_RunningOnlyWhileAlive ==
    LoopEnded => ~gps.running

\* C30, its consequence: a start() after the loop has ended opens a new
\* connection (or fails to), it does not return True without reconnecting.
C30_StartReconnects ==
    [][LoopEnded /\ gps'.op = "start" /\ gps'.returned
         => gps'.connects = gps.connects + 1]_vars

\* start() has returned True on a client whose read loop is gone
StaleStart ==
    /\ LoopEnded
    /\ gps.op = "start" /\ gps.returned
    /\ gps.running

\* is_running is false whenever the client has been stopped or never started
C30_StoppedNotRunning ==
    gps.phase = "client" /\ gps.thread = "none" => ~gps.running

====
